---- MODULE Spec2Model ----
(***************************************************************************)
(* Bar-by-bar replay of the NAS100 breakout strategy: the basic, enhanced  *)
(* and ultra backtest engines (Backtester, EnhancedBacktester,             *)
(* UltraBacktester).                                                       *)
(*                                                                         *)
(* Numbers.  Prices, volumes and money are integers; the series and the    *)
(* parameter sets are chosen so that every product and quotient the        *)
(* engines compute is exact (multiples of 10 for x1.2, even sums for /2).  *)
(* A mean is never rounded: comparisons against a mean are made on the     *)
(* cross-multiplied sums.  Rational parameters are (numerator,             *)
(* denominator) pairs.  Rows of df are 0-based as in the source: row k is  *)
(* df[k + 1].  A bar's time is in hours since the epoch.                   *)
(***************************************************************************)
EXTENDS Integers, Sequences, FiniteSets, TLC

\* ------------------------------------------------------------------ bounds
\* number of free bars that follow the warm-up bars of a series
TailLen == 3

\* number of run_backtest calls made on one engine instance
MaxRuns == 2

\* ------------------------------------------------- Python's None, sentinels
None == [type |-> "None"]

NoPrice == 0 - 1

NoIdx == 0 - 1

\* ------------------------------------------------------------ bar accessors
Row(d, k) == d[k + 1]

DfLen(d) == Len(d)

\* current_time.strftime('%Y-%m-%d'): the calendar date of a bar time
DateOf(t) == t \div 24

\* current_time.hour
HourOf(t) == t % 24

Max2(a, b) == IF a >= b THEN a ELSE b

Min2(a, b) == IF a <= b THEN a ELSE b

Abs(a) == IF a >= 0 THEN a ELSE 0 - a

\* df.iloc[a:b][col].sum(), rows a .. b-1
RECURSIVE SumCol(_, _, _, _)
SumCol(d, col, a, b) ==
  IF a >= b THEN 0 ELSE Row(d, a)[col] + SumCol(d, col, a + 1, b)

\* df.iloc[a:b][col].max()
RECURSIVE MaxCol(_, _, _, _)
MaxCol(d, col, a, b) ==
  IF a + 1 >= b THEN Row(d, a)[col]
  ELSE Max2(Row(d, a)[col], MaxCol(d, col, a + 1, b))

\* df.iloc[a:b][col].min()
RECURSIVE MinCol(_, _, _, _)
MinCol(d, col, a, b) ==
  IF a + 1 >= b THEN Row(d, a)[col]
  ELSE Min2(Row(d, a)[col], MinCol(d, col, a + 1, b))

\* ---------------------------------------------------------------- constants
\* period of the fast moving average of check_trend
fast_ma_period == 20

\* window of the volume average of check_volume
volume_period == 20

\* --------------------------------------------------------------- indicators
\* calculate_sma with the current bar inside the window
calculate_sma_IncludesCurrent(d, period, idx) ==
  IF idx < period THEN None
  ELSE [type |-> "mean", sum |-> SumCol(d, "close", idx - period + 1, idx + 1),
        n |-> period]

\* calculate_sma: None before `period` bars exist, else the mean of the
\* closes of rows idx-period .. idx-1, kept as sum / n
calculate_sma(d, period, idx) ==
  IF idx < period THEN None
  ELSE [type |-> "mean", sum |-> SumCol(d, "close", idx - period, idx),
        n |-> period]

\* true range of row k of the ATR window that starts at row first: the
\* shifted close of the first row is NaN, and max(axis=1) skips it
TrueRange(d, first, k) ==
  LET hl == Row(d, k).high - Row(d, k).low
  IN IF k = first THEN hl
     ELSE Max2(hl, Max2(Abs(Row(d, k).high - Row(d, k - 1).close),
                        Abs(Row(d, k).low - Row(d, k - 1).close)))

RECURSIVE SumTrueRange(_, _, _, _)
SumTrueRange(d, first, a, b) ==
  IF a >= b THEN 0
  ELSE TrueRange(d, first, a) + SumTrueRange(d, first, a + 1, b)

\* calculate_atr that asks for period bars only
calculate_atr_NoExtraBar(d, period, idx) ==
  IF idx < period THEN None
  ELSE [type |-> "mean", sum |-> SumTrueRange(d, idx - period, idx - period, idx),
        n |-> period]

\* calculate_atr: None before period+1 bars, else mean true range
calculate_atr(d, period, idx) ==
  IF idx < period + 1 THEN None
  ELSE [type |-> "mean", sum |-> SumTrueRange(d, idx - period, idx - period, idx),
        n |-> period]

\* sum of the positive close-to-close changes inside rows a .. b-1
RECURSIVE SumGain(_, _, _)
SumGain(d, a, b) ==
  IF a + 1 >= b THEN 0
  ELSE Max2(Row(d, a + 1).close - Row(d, a).close, 0) + SumGain(d, a + 1, b)

RECURSIVE SumLoss(_, _, _)
SumLoss(d, a, b) ==
  IF a + 1 >= b THEN 0
  ELSE Max2(Row(d, a).close - Row(d, a + 1).close, 0) + SumLoss(d, a + 1, b)

\* calculate_rsi: None before period+1 bars; 100 when the mean loss is 0;
\* else 100 - 100/(1 + gain/loss) = 100*gain/(gain+loss), kept as num/den
calculate_rsi(d, period, idx) ==
  IF idx < period + 1 THEN None
  ELSE LET g == SumGain(d, idx - period, idx)
           l == SumLoss(d, idx - period, idx)
       IN IF l = 0 THEN [type |-> "ratio", num |-> 100, den |-> 1]
          ELSE [type |-> "ratio", num |-> 100 * g, den |-> g + l]

\* ------------------------------------------------------------------ filters
\* The basic engine has no filter; the enhanced engine has volume, trend
\* and strength; the ultra engine has all eight.
IsUltra(c) == c.engine = "ultra"

HasFilters(c) == c.engine # "basic"

\* check_volume: pass-through before bar 20, else the bar's volume must
\* exceed volume_multiplier x mean volume of the 20 bars before it
check_volume(c, d, idx) ==
  IF idx < volume_period THEN TRUE
  ELSE Row(d, idx).tick_volume * volume_period * c.volume_multiplier.den
         > SumCol(d, "tick_volume", idx - volume_period, idx) * c.volume_multiplier.num

\* check_trend that lets the signal through on a missing moving average
check_trend_PassOnMissing(c, d, idx, signal) ==
  IF ~c.use_trend_filter THEN TRUE
  ELSE LET fast_ma == calculate_sma(d, fast_ma_period, idx)
           slow_ma == calculate_sma(d, c.trend_period, idx)
           current_price == Row(d, idx).close
       IN IF fast_ma = None \/ slow_ma = None THEN TRUE
          ELSE IF signal = "BUY"
               THEN /\ current_price * slow_ma.n > slow_ma.sum
                    /\ fast_ma.sum * slow_ma.n > slow_ma.sum * fast_ma.n
          ELSE IF signal = "SELL"
               THEN /\ current_price * slow_ma.n < slow_ma.sum
                    /\ fast_ma.sum * slow_ma.n < slow_ma.sum * fast_ma.n
          ELSE FALSE

\* check_trend: a missing moving average rejects
check_trend(c, d, idx, signal) ==
  IF ~c.use_trend_filter THEN TRUE
  ELSE LET fast_ma == calculate_sma(d, fast_ma_period, idx)
           slow_ma == calculate_sma(d, c.trend_period, idx)
           current_price == Row(d, idx).close
       IN IF fast_ma = None \/ slow_ma = None THEN FALSE
          ELSE IF signal = "BUY"
               THEN /\ current_price * slow_ma.n > slow_ma.sum
                    /\ fast_ma.sum * slow_ma.n > slow_ma.sum * fast_ma.n
          ELSE IF signal = "SELL"
               THEN /\ current_price * slow_ma.n < slow_ma.sum
                    /\ fast_ma.sum * slow_ma.n < slow_ma.sum * fast_ma.n
          ELSE FALSE

\* check_breakout_strength: excursion >= min_breakout_strength x box range
check_breakout_strength(c, current_price, high_level, low_level, signal) ==
  IF ~c.use_breakout_strength THEN TRUE
  ELSE LET box_range == high_level - low_level
       IN IF signal = "BUY"
          THEN (current_price - high_level) * c.min_breakout_strength.den
                 >= box_range * c.min_breakout_strength.num
          ELSE IF signal = "SELL"
          THEN (low_level - current_price) * c.min_breakout_strength.den
                 >= box_range * c.min_breakout_strength.num
          ELSE FALSE

\* check_rsi_filter: an RSI that cannot be computed passes
check_rsi_filter(c, d, idx, signal) ==
  IF ~c.use_rsi_filter THEN TRUE
  ELSE LET rsi == calculate_rsi(d, c.rsi_period, idx)
       IN IF rsi = None THEN TRUE
          ELSE IF signal = "BUY" /\ rsi.num > c.rsi_overbought * rsi.den THEN FALSE
          ELSE IF signal = "SELL" /\ rsi.num < c.rsi_oversold * rsi.den THEN FALSE
          ELSE TRUE

\* check_consolidation_quality: highs/lows within 10% of the box range of
\* the respective boundary, counted over rows max(0, idx-N) .. idx-1
check_consolidation_quality(c, d, high_level, low_level, current_idx) ==
  IF ~c.use_consolidation_quality THEN TRUE
  ELSE LET start_idx == Max2(0, current_idx - c.consolidation_periods)
           box_range == high_level - low_level
           upper_touches == Cardinality({k \in start_idx .. current_idx - 1 :
                               10 * Abs(Row(d, k).high - high_level) < box_range})
           lower_touches == Cardinality({k \in start_idx .. current_idx - 1 :
                               10 * Abs(Row(d, k).low - low_level) < box_range})
       IN upper_touches + lower_touches >= c.min_touches

\* check_time_filter that always treats the hours as one daytime range
check_time_filter_NoWrap(c, current_time) ==
  IF ~c.use_time_filter THEN TRUE
  ELSE LET hour == HourOf(current_time)
       IN c.trading_start_hour <= hour /\ hour <= c.trading_end_hour

\* check_time_filter, with the overnight wrap-around
check_time_filter(c, current_time) ==
  IF ~c.use_time_filter THEN TRUE
  ELSE LET hour == HourOf(current_time)
       IN IF c.trading_start_hour > c.trading_end_hour
          THEN hour >= c.trading_start_hour \/ hour <= c.trading_end_hour
          ELSE c.trading_start_hour <= hour /\ hour <= c.trading_end_hour

\* the rows the confirmation scan of check_false_breakout reads at row idx
ConfirmationRows(c, d, idx) ==
  IF idx + c.confirmation_bars >= DfLen(d) THEN {}
  ELSE {idx + k : k \in 1 .. c.confirmation_bars}

\* check_false_breakout without the length test: it scans the bars that exist
check_false_breakout_NoLengthGuard(c, d, idx, high_level, low_level, signal) ==
  IF ~c.use_false_breakout_filter THEN TRUE
  ELSE \A k \in 1 .. c.confirmation_bars :
         idx + k < DfLen(d) =>
           /\ signal = "BUY" => ~(Row(d, idx + k).close < high_level)
           /\ signal = "SELL" => ~(Row(d, idx + k).close > low_level)

\* check_false_breakout: the next confirmation_bars closes must not fall
\* back inside the box; too few bars left rejects
check_false_breakout(c, d, idx, high_level, low_level, signal) ==
  IF ~c.use_false_breakout_filter THEN TRUE
  ELSE IF idx + c.confirmation_bars >= DfLen(d) THEN FALSE
  ELSE \A r \in ConfirmationRows(c, d, idx) :
         /\ signal = "BUY" => ~(Row(d, r).close < high_level)
         /\ signal = "SELL" => ~(Row(d, r).close > low_level)

\* check_mtf_confirmation: a long moving average that cannot be computed passes
check_mtf_confirmation(c, d, idx, signal) ==
  IF ~c.use_mtf_confirmation THEN TRUE
  ELSE LET htf_ma == calculate_sma(d, c.higher_tf_period, idx)
           current_price == Row(d, idx).close
       IN IF htf_ma = None THEN TRUE
          ELSE IF signal = "BUY" THEN current_price * htf_ma.n > htf_ma.sum
          ELSE IF signal = "SELL" THEN current_price * htf_ma.n < htf_ma.sum
          ELSE TRUE

\* ------------------------------------------------- detector and generator
\* identify_consolidation: (is_consolidating, high_level, low_level,
\* box_range) over rows idx-N .. idx-1; the empty result before N bars
NoBox == [is_consolidating |-> FALSE, high_level |-> NoPrice,
          low_level |-> NoPrice, box_range |-> NoPrice]

\* identify_consolidation with the current bar inside the window
identify_consolidation_IncludesCurrent(c, d, current_idx) ==
  IF current_idx < c.consolidation_periods THEN NoBox
  ELSE LET start_idx == current_idx - c.consolidation_periods + 1
           high_level == MaxCol(d, "high", start_idx, current_idx + 1)
           low_level == MinCol(d, "low", start_idx, current_idx + 1)
           box_range == high_level - low_level
           sum_close == SumCol(d, "close", start_idx, current_idx + 1)
       IN [is_consolidating |->
             box_range * c.consolidation_periods * c.breakout_threshold.den
               < c.breakout_threshold.num * sum_close,
           high_level |-> high_level, low_level |-> low_level,
           box_range |-> box_range]

identify_consolidation(c, d, current_idx) ==
  IF current_idx < c.consolidation_periods THEN NoBox
  ELSE LET start_idx == current_idx - c.consolidation_periods
           high_level == MaxCol(d, "high", start_idx, current_idx)
           low_level == MinCol(d, "low", start_idx, current_idx)
           box_range == high_level - low_level
           sum_close == SumCol(d, "close", start_idx, current_idx)
       IN [is_consolidating |->
             box_range * c.consolidation_periods * c.breakout_threshold.den
               < c.breakout_threshold.num * sum_close,
           high_level |-> high_level, low_level |-> low_level,
           box_range |-> box_range]

\* the crossing test with strict comparisons on the previous close
RawSignal_StrictPrevious(d, current_idx, high_level, low_level) ==
  IF current_idx < 1 THEN "NONE"
  ELSE LET current_price == Row(d, current_idx).close
           previous_price == Row(d, current_idx - 1).close
       IN IF previous_price < high_level /\ current_price > high_level THEN "BUY"
          ELSE IF previous_price > low_level /\ current_price < low_level THEN "SELL"
          ELSE "NONE"

\* the crossing test with a non-strict comparison on the current close
RawSignal_NonStrictCurrent(d, current_idx, high_level, low_level) ==
  IF current_idx < 1 THEN "NONE"
  ELSE LET current_price == Row(d, current_idx).close
           previous_price == Row(d, current_idx - 1).close
       IN IF previous_price <= high_level /\ current_price >= high_level THEN "BUY"
          ELSE IF previous_price >= low_level /\ current_price <= low_level THEN "SELL"
          ELSE "NONE"

\* the close-crossing test shared by the three detect_breakout methods
RawSignal(d, current_idx, high_level, low_level) ==
  IF current_idx < 1 THEN "NONE"
  ELSE LET current_price == Row(d, current_idx).close
           previous_price == Row(d, current_idx - 1).close
       IN IF previous_price <= high_level /\ current_price > high_level THEN "BUY"
          ELSE IF previous_price >= low_level /\ current_price < low_level THEN "SELL"
          ELSE "NONE"

\* the filters in the order detect_breakout applies them
FilterOrder == <<"volume", "trend", "strength", "rsi", "quality", "time",
                 "false_breakout", "mtf">>

\* the filters an engine's detect_breakout applies: none (basic), the first
\* three (enhanced), all eight (ultra)
FilterCount(c) == IF c.engine = "basic" THEN 0
                  ELSE IF c.engine = "enhanced" THEN 3 ELSE 8

FilterPasses(c, d, idx, high_level, low_level, signal, name) ==
  CASE name = "volume" -> check_volume(c, d, idx)
    [] name = "trend" -> check_trend(c, d, idx, signal)
    [] name = "strength" ->
         check_breakout_strength(c, Row(d, idx).close, high_level, low_level, signal)
    [] name = "rsi" -> check_rsi_filter(c, d, idx, signal)
    [] name = "quality" -> check_consolidation_quality(c, d, high_level, low_level, idx)
    [] name = "time" -> check_time_filter(c, Row(d, idx).time)
    [] name = "false_breakout" ->
         check_false_breakout(c, d, idx, high_level, low_level, signal)
    [] name = "mtf" -> check_mtf_confirmation(c, d, idx, signal)

\* position in FilterOrder of the first filter that rejects, scanning from
\* position k; 0 when every remaining filter passes (later filters are not
\* evaluated after a rejection)
RECURSIVE FirstVeto(_, _, _, _, _, _, _)
FirstVeto(c, d, idx, high_level, low_level, signal, k) ==
  IF k > FilterCount(c) THEN 0
  ELSE IF ~FilterPasses(c, d, idx, high_level, low_level, signal, FilterOrder[k]) THEN k
  ELSE FirstVeto(c, d, idx, high_level, low_level, signal, k + 1)

\* detect_breakout without the early return: every failing filter is charged
detect_breakout_ChargeAll(c, d, rejected, current_idx, high_level, low_level) ==
  LET signal == RawSignal(d, current_idx, high_level, low_level)
      fails(name) == \E k \in 1 .. FilterCount(c) :
                        /\ FilterOrder[k] = name
                        /\ ~FilterPasses(c, d, current_idx, high_level, low_level,
                                         signal, name)
  IN IF signal = "NONE" THEN [signal |-> "NONE", rejected |-> rejected]
     ELSE IF FirstVeto(c, d, current_idx, high_level, low_level, signal, 1) = 0
     THEN [signal |-> signal, rejected |-> rejected]
     ELSE [signal |-> "NONE",
           rejected |-> [name \in DOMAIN rejected |->
                           IF fails(name) THEN rejected[name] + 1 ELSE rejected[name]]]

\* detect_breakout: the signal returned and the rejection counters after it
detect_breakout(c, d, rejected, current_idx, high_level, low_level) ==
  LET signal == RawSignal(d, current_idx, high_level, low_level)
  IN IF signal = "NONE" THEN [signal |-> "NONE", rejected |-> rejected]
     ELSE LET veto == FirstVeto(c, d, current_idx, high_level, low_level, signal, 1)
          IN IF veto = 0 THEN [signal |-> signal, rejected |-> rejected]
             ELSE [signal |-> "NONE",
                   rejected |-> [rejected EXCEPT ![FilterOrder[veto]] = @ + 1]]

\* ------------------------------------------------------ stop/target levels
\* calculate_tp_sl_box with the stop at 1.0 x box range
calculate_tp_sl_box_NoMultiplier(c, entry_price, signal_type, box_range) ==
  IF signal_type = "BUY"
  THEN LET stop_loss == entry_price - box_range
           risk == entry_price - stop_loss
       IN [take_profit |-> entry_price + risk * c.risk_reward_ratio,
           stop_loss |-> stop_loss]
  ELSE LET stop_loss == entry_price + box_range
           risk == stop_loss - entry_price
       IN [take_profit |-> entry_price - risk * c.risk_reward_ratio,
           stop_loss |-> stop_loss]

\* calculate_tp_sl_box (calculate_tp_sl of the basic engine): stop at
\* 1.2 x box range, target at risk x risk_reward_ratio
calculate_tp_sl_box(c, entry_price, signal_type, box_range) ==
  IF signal_type = "BUY"
  THEN LET stop_loss == entry_price - (box_range * 12) \div 10
           risk == entry_price - stop_loss
       IN [take_profit |-> entry_price + risk * c.risk_reward_ratio,
           stop_loss |-> stop_loss]
  ELSE LET stop_loss == entry_price + (box_range * 12) \div 10
           risk == stop_loss - entry_price
       IN [take_profit |-> entry_price - risk * c.risk_reward_ratio,
           stop_loss |-> stop_loss]

\* calculate_tp_sl of the enhanced and ultra engines: ATR x multiplier when
\* ATR stops are on and the ATR exists, else the box levels
calculate_tp_sl(c, d, idx, entry_price, signal_type, box_range) ==
  IF HasFilters(c) /\ c.use_atr_stops
  THEN LET atr == calculate_atr(d, c.atr_period, idx)
       IN IF atr = None
          THEN calculate_tp_sl_box(c, entry_price, signal_type, box_range)
          ELSE LET stop_distance == (atr.sum * c.atr_multiplier) \div atr.n
               IN IF signal_type = "BUY"
                  THEN [take_profit |-> entry_price + stop_distance * c.risk_reward_ratio,
                        stop_loss |-> entry_price - stop_distance]
                  ELSE [take_profit |-> entry_price - stop_distance * c.risk_reward_ratio,
                        stop_loss |-> entry_price + stop_distance]
  ELSE calculate_tp_sl_box(c, entry_price, signal_type, box_range)

\* --------------------------------------------------------- trade lifecycle
\* The engine object is a record `self` of its mutable attributes.
Trailing(c) == IsUltra(c) /\ c.use_trailing_stop

\* open_trade
open_trade(c, self, signal_type, entry_price, entry_time, take_profit, stop_loss) ==
  [self EXCEPT
     !.current_trade = [type |-> signal_type, entry_price |-> entry_price,
                        entry_time |-> entry_time, take_profit |-> take_profit,
                        stop_loss |-> stop_loss, lot_size |-> c.lot_size_x100,
                        trailing_stop |-> IF Trailing(c) THEN stop_loss ELSE NoPrice],
     !.in_position = TRUE,
     !.highest_price_in_trade = IF IsUltra(c) THEN entry_price ELSE NoPrice,
     !.lowest_price_in_trade = IF IsUltra(c) THEN entry_price ELSE NoPrice]

\* update_trailing_stop without the only-in-favour guard on the new stop
update_trailing_stop_Unguarded(c, self, current_high, current_low) ==
  IF ~Trailing(c) \/ ~self.in_position THEN self
  ELSE LET entry == self.current_trade.entry_price
           trail_distance == (entry * c.trailing_stop_pct) \div 100
       IN IF self.current_trade.type = "BUY"
          THEN IF current_high > self.highest_price_in_trade
               THEN [self EXCEPT
                       !.highest_price_in_trade = current_high,
                       !.current_trade.trailing_stop = current_high - trail_distance]
               ELSE self
          ELSE IF current_low < self.lowest_price_in_trade
               THEN [self EXCEPT
                       !.lowest_price_in_trade = current_low,
                       !.current_trade.trailing_stop = current_low + trail_distance]
               ELSE self

\* update_trailing_stop: ratchet the stop behind the best price seen
update_trailing_stop(c, self, current_high, current_low) ==
  IF ~Trailing(c) \/ ~self.in_position THEN self
  ELSE LET entry == self.current_trade.entry_price
           trail_distance == (entry * c.trailing_stop_pct) \div 100
       IN IF self.current_trade.type = "BUY"
          THEN IF current_high > self.highest_price_in_trade
               THEN LET new_stop == current_high - trail_distance
                    IN [self EXCEPT
                          !.highest_price_in_trade = current_high,
                          !.current_trade.trailing_stop =
                             IF new_stop > @ THEN new_stop ELSE @]
               ELSE self
          ELSE IF current_low < self.lowest_price_in_trade
               THEN LET new_stop == current_low + trail_distance
                    IN [self EXCEPT
                          !.lowest_price_in_trade = current_low,
                          !.current_trade.trailing_stop =
                             IF new_stop < @ THEN new_stop ELSE @]
               ELSE self

NoExit == [should_close |-> FALSE, exit_price |-> NoPrice, exit_reason |-> "None"]

\* the level tests with the stop tested before the take-profit
ExitDecision_StopFirst(c, trade, high, low) ==
  LET tp == trade.take_profit
      sl == IF Trailing(c) THEN trade.trailing_stop ELSE trade.stop_loss
      stop_reason == IF Trailing(c) THEN "TSL" ELSE "SL"
  IN IF trade.type = "BUY"
     THEN IF low <= sl
          THEN [should_close |-> TRUE, exit_price |-> sl, exit_reason |-> stop_reason]
          ELSE IF high >= tp
          THEN [should_close |-> TRUE, exit_price |-> tp, exit_reason |-> "TP"]
          ELSE NoExit
     ELSE IF high >= sl
          THEN [should_close |-> TRUE, exit_price |-> sl, exit_reason |-> stop_reason]
          ELSE IF low <= tp
          THEN [should_close |-> TRUE, exit_price |-> tp, exit_reason |-> "TP"]
          ELSE NoExit

\* the level tests of check_trade_exit: take-profit first, then the stop
ExitDecision(c, trade, high, low) ==
  LET tp == trade.take_profit
      sl == IF Trailing(c) THEN trade.trailing_stop ELSE trade.stop_loss
      stop_reason == IF Trailing(c) THEN "TSL" ELSE "SL"
  IN IF trade.type = "BUY"
     THEN IF high >= tp
          THEN [should_close |-> TRUE, exit_price |-> tp, exit_reason |-> "TP"]
          ELSE IF low <= sl
          THEN [should_close |-> TRUE, exit_price |-> sl, exit_reason |-> stop_reason]
          ELSE NoExit
     ELSE IF low <= tp
          THEN [should_close |-> TRUE, exit_price |-> tp, exit_reason |-> "TP"]
          ELSE IF high >= sl
          THEN [should_close |-> TRUE, exit_price |-> sl, exit_reason |-> stop_reason]
          ELSE NoExit

\* check_trade_exit with the levels tested before the trailing stop is moved
check_trade_exit_TestBeforeUpdate(c, self, current_bar) ==
  IF ~self.in_position \/ self.current_trade = None
  THEN [self |-> self, exit |-> NoExit]
  ELSE LET updated == update_trailing_stop(c, self, current_bar.high, current_bar.low)
       IN [self |-> updated,
           exit |-> ExitDecision(c, self.current_trade, current_bar.high,
                                 current_bar.low)]

\* check_trade_exit: the engine after the trailing-stop update, and the
\* (should_close, exit_price, exit_reason) it returns
check_trade_exit(c, self, current_bar) ==
  IF ~self.in_position \/ self.current_trade = None
  THEN [self |-> self, exit |-> NoExit]
  ELSE LET updated == update_trailing_stop(c, self, current_bar.high, current_bar.low)
       IN [self |-> updated,
           exit |-> ExitDecision(c, updated.current_trade, current_bar.high,
                                 current_bar.low)]

\* close_trade that puts the new record at the head of the list
close_trade_Prepends(c, self, exit_price, exit_time, exit_reason) ==
  IF ~self.in_position THEN self
  ELSE LET trade == self.current_trade
           points == IF trade.type = "BUY" THEN exit_price - trade.entry_price
                     ELSE trade.entry_price - exit_price
           profit == points * c.lot_size_x100
           new_balance == self.balance + profit
           trade_record == [entry_time |-> trade.entry_time, exit_time |-> exit_time,
                            type |-> trade.type, entry_price |-> trade.entry_price,
                            exit_price |-> exit_price,
                            take_profit |-> trade.take_profit,
                            stop_loss |-> trade.stop_loss, points |-> points,
                            profit |-> profit, balance |-> new_balance,
                            exit_reason |-> exit_reason, win |-> profit > 0]
       IN [self EXCEPT !.balance = new_balance,
                       !.trades = <<trade_record>> \o @,
                       !.in_position = FALSE,
                       !.current_trade = None,
                       !.highest_price_in_trade = NoPrice,
                       !.lowest_price_in_trade = NoPrice]

\* close_trade that records the balance before the profit is booked
close_trade_StaleBalance(c, self, exit_price, exit_time, exit_reason) ==
  IF ~self.in_position THEN self
  ELSE LET trade == self.current_trade
           points == IF trade.type = "BUY" THEN exit_price - trade.entry_price
                     ELSE trade.entry_price - exit_price
           profit == points * c.lot_size_x100
           new_balance == self.balance + profit
           trade_record == [entry_time |-> trade.entry_time, exit_time |-> exit_time,
                            type |-> trade.type, entry_price |-> trade.entry_price,
                            exit_price |-> exit_price,
                            take_profit |-> trade.take_profit,
                            stop_loss |-> trade.stop_loss, points |-> points,
                            profit |-> profit, balance |-> self.balance,
                            exit_reason |-> exit_reason, win |-> profit > 0]
       IN [self EXCEPT !.balance = new_balance,
                       !.trades = Append(@, trade_record),
                       !.in_position = FALSE,
                       !.current_trade = None,
                       !.highest_price_in_trade = NoPrice,
                       !.lowest_price_in_trade = NoPrice]

\* close_trade that counts a trade without loss as a win
close_trade_WinOnBreakEven(c, self, exit_price, exit_time, exit_reason) ==
  IF ~self.in_position THEN self
  ELSE LET trade == self.current_trade
           points == IF trade.type = "BUY" THEN exit_price - trade.entry_price
                     ELSE trade.entry_price - exit_price
           profit == points * c.lot_size_x100
           new_balance == self.balance + profit
           trade_record == [entry_time |-> trade.entry_time, exit_time |-> exit_time,
                            type |-> trade.type, entry_price |-> trade.entry_price,
                            exit_price |-> exit_price,
                            take_profit |-> trade.take_profit,
                            stop_loss |-> trade.stop_loss, points |-> points,
                            profit |-> profit, balance |-> new_balance,
                            exit_reason |-> exit_reason, win |-> profit >= 0]
       IN [self EXCEPT !.balance = new_balance,
                       !.trades = Append(@, trade_record),
                       !.in_position = FALSE,
                       !.current_trade = None,
                       !.highest_price_in_trade = NoPrice,
                       !.lowest_price_in_trade = NoPrice]

\* close_trade: book the profit, append the trade record, go flat
close_trade(c, self, exit_price, exit_time, exit_reason) ==
  IF ~self.in_position THEN self
  ELSE LET trade == self.current_trade
           points == IF trade.type = "BUY" THEN exit_price - trade.entry_price
                     ELSE trade.entry_price - exit_price
           profit == points * c.lot_size_x100
           new_balance == self.balance + profit
           trade_record == [entry_time |-> trade.entry_time, exit_time |-> exit_time,
                            type |-> trade.type, entry_price |-> trade.entry_price,
                            exit_price |-> exit_price,
                            take_profit |-> trade.take_profit,
                            stop_loss |-> trade.stop_loss, points |-> points,
                            profit |-> profit, balance |-> new_balance,
                            exit_reason |-> exit_reason, win |-> profit > 0]
       IN [self EXCEPT !.balance = new_balance,
                       !.trades = Append(@, trade_record),
                       !.in_position = FALSE,
                       !.current_trade = None,
                       !.highest_price_in_trade = NoPrice,
                       !.lowest_price_in_trade = NoPrice]

\* daily_trades_count.get(date_str, 0)
DailyGet(counts, date) == IF date \in DOMAIN counts THEN counts[date] ELSE 0

\* can_trade_today with an off-by-one comparison
can_trade_today_OffByOne(c, self, current_time) ==
  DailyGet(self.daily_trades_count, DateOf(current_time)) <= c.max_daily_trades

\* can_trade_today
can_trade_today(c, self, current_time) ==
  DailyGet(self.daily_trades_count, DateOf(current_time)) < c.max_daily_trades

\* increment_daily_trades that starts a new dictionary for the date
increment_daily_trades_DropOtherDates(self, current_time) ==
  LET date == DateOf(current_time)
      counts == self.daily_trades_count
  IN [self EXCEPT !.daily_trades_count =
        [k \in {date} |-> DailyGet(counts, date) + 1]]

\* increment_daily_trades
increment_daily_trades(self, current_time) ==
  LET date == DateOf(current_time)
      counts == self.daily_trades_count
  IN [self EXCEPT !.daily_trades_count =
        [k \in DOMAIN counts \cup {date} |->
           IF k = date THEN DailyGet(counts, date) + 1 ELSE counts[k]]]

\* ------------------------------------------------------------ the bar series
\* number of identical warm-up bars at the head of a series: the longest
\* fixed look-back of the engines, so that every indicator can be computed
\* on the free bars
WarmLen == Max2(fast_ma_period, volume_period)

\* A quiet series is WarmLen identical quiet bars (box 10000 .. 10100,
\* volume 10) followed by TailLen bars drawn from TailBars.  A spike series
\* is a quiet series whose row 0 closed at 15000, followed by narrow bars
\* only: it puts the long moving averages above the later prices.  The
\* scenario series is 25 bars confined to 10000 .. 10050 that close at
\* 10040, then a bar that closes at 10100.  Bars are hourly; row k is
\* stamped k + 2 hours after midnight of day 0, so rows 20 and 21 fall on
\* day 0 and later rows on day 1.
WarmBar == [high |-> 10100, low |-> 10000, close |-> 10000, tick_volume |-> 10]

SpikeBar == [high |-> 15000, low |-> 15000, close |-> 15000, tick_volume |-> 10]

Shape(close, up, down, volume) ==
  [high |-> close + up, low |-> close - down, close |-> close,
   tick_volume |-> volume]

TailBars ==
  { Shape(10200, 0, 0, 20), Shape(10200, 300, 0, 20), Shape(10200, 300, 600, 20),
    Shape(10200, 100, 0, 10),
    Shape(10000, 0, 0, 20),
    Shape(9900, 0, 0, 20), Shape(9900, 0, 100, 20) }

NarrowBars == {Shape(10200, 0, 0, 20), Shape(10000, 0, 0, 20), Shape(9900, 0, 0, 20)}

Stamp(bars) ==
  [k \in 1 .. Len(bars) |->
     [time |-> k + 1, high |-> bars[k].high, low |-> bars[k].low,
      close |-> bars[k].close, tick_volume |-> bars[k].tick_volume]]

SeriesOver(first, alphabet) ==
  {Stamp([k \in 1 .. WarmLen + TailLen |->
            IF k = 1 THEN first
            ELSE IF k <= WarmLen THEN WarmBar ELSE tail[k - WarmLen]]) :
     tail \in [1 .. TailLen -> alphabet]}

\* rows 0 .. 24 inside 10000 .. 10050 closing at 10040, row 25 closing at 10100
ScenarioSeries ==
  Stamp([k \in 1 .. 26 |->
           IF k <= 25 THEN Shape(10040, 10, 40, 10) ELSE Shape(10100, 0, 0, 10)])

\* every bar has high = low = close = 10000
FlatSeries == Stamp([k \in 1 .. WarmLen + TailLen |-> Shape(10000, 0, 0, 10)])

\* a quiet series whose rows 0 and 1 carry each other's bar times, followed
\* by a breakout bar and two closes back at 10000
OutOfOrderSeries ==
  LET bars == Stamp([k \in 1 .. WarmLen + TailLen |->
                       IF k <= WarmLen THEN WarmBar
                       ELSE IF k = WarmLen + 1 THEN Shape(10200, 0, 0, 20)
                       ELSE Shape(10000, 0, 0, 20)])
  IN [bars EXCEPT ![1].time = bars[2].time, ![2].time = bars[1].time]

Series ==
  SeriesOver(WarmBar, TailBars) \cup SeriesOver(SpikeBar, NarrowBars)
    \cup {ScenarioSeries, FlatSeries, OutOfOrderSeries}

\* --------------------------------------------------------- parameter sets
\* One record per engine construction plus the start_idx / end_idx handed
\* to run_backtest (NoIdx for the default None).
BaseConfig ==
  [engine |-> "ultra", initial_balance |-> 10000, lot_size_x100 |-> 2,
   risk_reward_ratio |-> 2, consolidation_periods |-> 2,
   breakout_threshold |-> [num |-> 25, den |-> 1000], max_daily_trades |-> 1,
   use_trend_filter |-> FALSE, trend_period |-> 2,
   use_breakout_strength |-> FALSE,
   min_breakout_strength |-> [num |-> 15, den |-> 100],
   use_atr_stops |-> FALSE, atr_period |-> 2, atr_multiplier |-> 2,
   volume_multiplier |-> [num |-> 11, den |-> 10],
   use_rsi_filter |-> FALSE, rsi_period |-> 2, rsi_overbought |-> 70,
   rsi_oversold |-> 30,
   use_consolidation_quality |-> FALSE, min_touches |-> 2,
   use_time_filter |-> FALSE, trading_start_hour |-> 22, trading_end_hour |-> 0,
   use_trailing_stop |-> FALSE, trailing_stop_pct |-> 1,
   use_false_breakout_filter |-> FALSE, confirmation_bars |-> 1,
   use_mtf_confirmation |-> FALSE, higher_tf_period |-> 3,
   start_idx |-> NoIdx, end_idx |-> NoIdx]

AllFiltersOn(c) ==
  [c EXCEPT !.use_trend_filter = TRUE, !.use_breakout_strength = TRUE,
            !.use_rsi_filter = TRUE, !.use_consolidation_quality = TRUE,
            !.use_time_filter = TRUE, !.use_false_breakout_filter = TRUE,
            !.use_mtf_confirmation = TRUE]

Configs ==
  { [BaseConfig EXCEPT !.engine = "basic", !.start_idx = WarmLen - 1],
    [BaseConfig EXCEPT !.engine = "basic", !.consolidation_periods = 20,
                       !.breakout_threshold = [num |-> 15, den |-> 1000],
                       !.max_daily_trades = 2, !.risk_reward_ratio = 1,
                       !.start_idx = WarmLen - 1],
    [BaseConfig EXCEPT !.engine = "enhanced", !.use_trend_filter = TRUE,
                       !.use_breakout_strength = TRUE, !.use_atr_stops = TRUE,
                       !.start_idx = WarmLen],
    [BaseConfig EXCEPT !.engine = "enhanced", !.max_daily_trades = 2,
                       !.start_idx = WarmLen],
    [AllFiltersOn(BaseConfig) EXCEPT !.start_idx = WarmLen],
    [AllFiltersOn(BaseConfig) EXCEPT !.use_atr_stops = TRUE,
                                     !.higher_tf_period = WarmLen + 1],
    [BaseConfig EXCEPT !.use_trailing_stop = TRUE, !.start_idx = WarmLen],
    [BaseConfig EXCEPT !.use_trailing_stop = TRUE, !.trailing_stop_pct = 3,
                       !.max_daily_trades = 2, !.start_idx = WarmLen],
    [BaseConfig EXCEPT !.use_false_breakout_filter = TRUE,
                       !.confirmation_bars = 2,
                       !.use_consolidation_quality = TRUE,
                       !.max_daily_trades = 2, !.start_idx = WarmLen,
                       !.end_idx = WarmLen + TailLen],
    [BaseConfig EXCEPT !.use_breakout_strength = TRUE, !.use_rsi_filter = TRUE,
                       !.use_consolidation_quality = TRUE, !.min_touches = 3,
                       !.use_time_filter = TRUE, !.trading_start_hour = 23,
                       !.use_false_breakout_filter = TRUE,
                       !.max_daily_trades = 2, !.start_idx = WarmLen],
    [BaseConfig EXCEPT !.use_breakout_strength = TRUE,
                       !.min_breakout_strength = [num |-> 150, den |-> 100],
                       !.start_idx = WarmLen],
    [BaseConfig EXCEPT !.use_mtf_confirmation = TRUE,
                       !.higher_tf_period = WarmLen + 1,
                       !.max_daily_trades = 2, !.start_idx = WarmLen],
    [BaseConfig EXCEPT !.max_daily_trades = 2, !.start_idx = WarmLen,
                       !.rsi_period = 0 - 1, !.trading_start_hour = 25],
    [BaseConfig EXCEPT !.engine = "enhanced", !.use_trend_filter = TRUE,
                       !.trend_period = WarmLen + 1,
                       !.max_daily_trades = 2, !.start_idx = WarmLen],
    [BaseConfig EXCEPT !.engine = "basic", !.lot_size_x100 = 1,
                       !.consolidation_periods = 20,
                       !.breakout_threshold = [num |-> 15, den |-> 10000],
                       !.max_daily_trades = 5] }

\* ------------------------------------------------------------------- state
VARIABLES
  df,                      \* the bar series handed to run_backtest
  cfg,                     \* the engine's parameters and the run arguments
  pc,                      \* "idle" (constructed), "loop" (replaying), "done"
  i,                       \* loop index of run_backtest
  start_idx, end_idx,      \* the resolved bounds of the replay
  balance, in_position, current_trade,
  highest_price_in_trade, lowest_price_in_trade,
  trades, equity_curve, daily_trades_count, rejected_trades,
  runs,                    \* run_backtest calls started on this instance
  previous,                \* what the previous run_backtest call left and returned
  sweep                    \* the locals of the optimizer routine driving the engine

vars == <<df, cfg, pc, i, start_idx, end_idx, balance, in_position,
          current_trade, highest_price_in_trade, lowest_price_in_trade,
          trades, equity_curve, daily_trades_count, rejected_trades,
          runs, previous, sweep>>

\* the engine object as a record
Self ==
  [balance |-> balance, in_position |-> in_position,
   current_trade |-> current_trade,
   highest_price_in_trade |-> highest_price_in_trade,
   lowest_price_in_trade |-> lowest_price_in_trade,
   trades |-> trades, equity_curve |-> equity_curve,
   daily_trades_count |-> daily_trades_count,
   rejected_trades |-> rejected_trades]

\* store an engine record back into the attributes
Store(self) ==
  /\ balance' = self.balance
  /\ in_position' = self.in_position
  /\ current_trade' = self.current_trade
  /\ highest_price_in_trade' = self.highest_price_in_trade
  /\ lowest_price_in_trade' = self.lowest_price_in_trade
  /\ trades' = self.trades
  /\ equity_curve' = self.equity_curve
  /\ daily_trades_count' = self.daily_trades_count
  /\ rejected_trades' = self.rejected_trades

ZeroRejections == [name \in {FilterOrder[k] : k \in 1 .. Len(FilterOrder)} |-> 0]

\* __init__: the attributes of a freshly constructed engine
Fresh(c) ==
  [balance |-> c.initial_balance, in_position |-> FALSE, current_trade |-> None,
   highest_price_in_trade |-> NoPrice, lowest_price_in_trade |-> NoPrice,
   trades |-> <<>>, equity_curve |-> <<>>, daily_trades_count |-> <<>>,
   rejected_trades |-> ZeroRejections]

Init ==
  /\ cfg \in Configs
  /\ df \in Series
  /\ pc = "idle"
  /\ i = NoIdx
  /\ start_idx = NoIdx
  /\ end_idx = NoIdx
  /\ balance = cfg.initial_balance
  /\ in_position = FALSE
  /\ current_trade = None
  /\ highest_price_in_trade = NoPrice
  /\ lowest_price_in_trade = NoPrice
  /\ trades = <<>>
  /\ equity_curve = <<>>
  /\ daily_trades_count = <<>>
  /\ rejected_trades = ZeroRejections
  /\ runs = 0
  /\ previous = None
  /\ sweep = None

\* start_idx=None: the longest look-back the engine's class uses
DefaultStart(c) ==
  IF c.engine = "basic" THEN c.consolidation_periods
  ELSE IF c.engine = "enhanced" THEN Max2(c.consolidation_periods, c.trend_period)
  ELSE Max2(c.consolidation_periods, Max2(c.trend_period, c.higher_tf_period))

\* end_idx=None: the series length, less the confirmation bars in the ultra
\* engine when the false-breakout filter is on
DefaultEnd(c, d) ==
  IF IsUltra(c) /\ c.use_false_breakout_filter THEN DfLen(d) - c.confirmation_bars
  ELSE DfLen(d)

\* the resolved replay bounds
ResolveStart(c) == IF c.start_idx = NoIdx THEN DefaultStart(c) ELSE c.start_idx

ResolveEnd(c, d) == IF c.end_idx = NoIdx THEN DefaultEnd(c, d) ELSE c.end_idx

\* the reset that leaves the daily trade counters of the previous run
Reset_KeepDailyCounts(c, self) ==
  [Fresh(c) EXCEPT
     !.highest_price_in_trade = self.highest_price_in_trade,
     !.lowest_price_in_trade = self.lowest_price_in_trade,
     !.daily_trades_count = self.daily_trades_count]

\* "Reset state" of run_backtest; the reset of the ultra engine leaves
\* highest/lowest_price_in_trade alone
Reset(c, self) ==
  [Fresh(c) EXCEPT
     !.highest_price_in_trade = self.highest_price_in_trade,
     !.lowest_price_in_trade = self.lowest_price_in_trade]

\* run_backtest up to the loop: resolve the bounds, reset the run state
BeginRun ==
  /\ start_idx' = ResolveStart(cfg)
  /\ end_idx' = ResolveEnd(cfg, df)
  /\ i' = start_idx'
  /\ pc' = "loop"
  /\ runs' = runs + 1
  /\ Store(Reset(cfg, Self))
  /\ UNCHANGED <<df, cfg, sweep>>

\* the first run_backtest call on a constructed engine
StartRun ==
  /\ pc = "idle"
  /\ BeginRun
  /\ UNCHANGED previous

\* the exit check of one loop iteration
ExitPhase(c, self, current_bar) ==
  IF self.in_position
  THEN LET r == check_trade_exit(c, self, current_bar)
       IN IF r.exit.should_close
          THEN close_trade(c, r.self, r.exit.exit_price, current_bar.time,
                           r.exit.exit_reason)
          ELSE r.self
  ELSE self

\* the equity sample taken only while flat
EquityPhase_FlatOnly(self, current_bar) ==
  IF self.in_position THEN self
  ELSE [self EXCEPT !.equity_curve =
          Append(@, [time |-> current_bar.time, balance |-> self.balance,
                     in_position |-> self.in_position])]

\* the equity sample of one loop iteration
EquityPhase(self, current_bar) ==
  [self EXCEPT !.equity_curve =
     Append(@, [time |-> current_bar.time, balance |-> self.balance,
                in_position |-> self.in_position])]

\* the entry evaluation without the skip while a position is open
EntryPhase_NoPositionSkip(c, d, self, idx) ==
  LET current_bar == Row(d, idx)
      current_price == current_bar.close
  IN IF ~can_trade_today(c, self, current_bar.time) THEN self
     ELSE LET box == identify_consolidation(c, d, idx)
          IN IF ~box.is_consolidating THEN self
             ELSE LET r == detect_breakout(c, d, self.rejected_trades, idx,
                                           box.high_level, box.low_level)
                      counted == [self EXCEPT !.rejected_trades = r.rejected]
                  IN IF r.signal = "NONE" THEN counted
                     ELSE LET lv == calculate_tp_sl(c, d, idx, current_price,
                                                    r.signal, box.box_range)
                          IN increment_daily_trades(
                               open_trade(c, counted, r.signal, current_price,
                                          current_bar.time, lv.take_profit,
                                          lv.stop_loss),
                               current_bar.time)

\* the entry evaluation with the detector run ahead of the daily-limit skip
EntryPhase_DetectBeforeCap(c, d, self, idx) ==
  LET current_bar == Row(d, idx)
      current_price == current_bar.close
  IN IF self.in_position THEN self
     ELSE LET box == identify_consolidation(c, d, idx)
          IN IF ~box.is_consolidating THEN self
             ELSE LET r == detect_breakout(c, d, self.rejected_trades, idx,
                                           box.high_level, box.low_level)
                      counted == [self EXCEPT !.rejected_trades = r.rejected]
                  IN IF r.signal = "NONE" THEN counted
                     ELSE IF ~can_trade_today(c, self, current_bar.time) THEN counted
                     ELSE LET lv == calculate_tp_sl(c, d, idx, current_price,
                                                    r.signal, box.box_range)
                          IN increment_daily_trades(
                               open_trade(c, counted, r.signal, current_price,
                                          current_bar.time, lv.take_profit,
                                          lv.stop_loss),
                               current_bar.time)

\* the entry evaluation of one loop iteration
EntryPhase(c, d, self, idx) ==
  LET current_bar == Row(d, idx)
      current_price == current_bar.close
  IN IF self.in_position THEN self
     ELSE IF ~can_trade_today(c, self, current_bar.time) THEN self
     ELSE LET box == identify_consolidation(c, d, idx)
          IN IF ~box.is_consolidating THEN self
             ELSE LET r == detect_breakout(c, d, self.rejected_trades, idx,
                                           box.high_level, box.low_level)
                      counted == [self EXCEPT !.rejected_trades = r.rejected]
                  IN IF r.signal = "NONE" THEN counted
                     ELSE LET lv == calculate_tp_sl(c, d, idx, current_price,
                                                    r.signal, box.box_range)
                          IN increment_daily_trades(
                               open_trade(c, counted, r.signal, current_price,
                                          current_bar.time, lv.take_profit,
                                          lv.stop_loss),
                               current_bar.time)

\* the loop body with the entry evaluation ahead of the equity sample
ProcessBar_EntryBeforeSample(c, d, self, idx) ==
  LET current_bar == Row(d, idx)
      exited == ExitPhase(c, self, current_bar)
      entered == EntryPhase(c, d, exited, idx)
  IN EquityPhase(entered, current_bar)

\* the loop body with the exit check behind the entry evaluation, so that a
\* trade is tested against the bar it was entered on
ProcessBar_ExitAfterEntry(c, d, self, idx) ==
  LET current_bar == Row(d, idx)
      sampled == EquityPhase(self, current_bar)
      entered == EntryPhase(c, d, sampled, idx)
  IN ExitPhase(c, entered, current_bar)

\* the body of the main loop: exit check, equity sample, entry evaluation
ProcessBar(c, d, self, idx) ==
  LET current_bar == Row(d, idx)
      exited == ExitPhase(c, self, current_bar)
      sampled == EquityPhase(exited, current_bar)
  IN EntryPhase(c, d, sampled, idx)

\* one iteration of the main loop of run_backtest
BarStep ==
  /\ pc = "loop"
  /\ i < end_idx
  /\ Store(ProcessBar(cfg, df, Self, i))
  /\ i' = i + 1
  /\ UNCHANGED <<df, cfg, pc, start_idx, end_idx, runs, previous, sweep>>

\* the forced close priced at the last row of the series instead of the
\* last row of the replay
FinishRun_SeriesEnd ==
  /\ pc = "loop"
  /\ i >= end_idx
  /\ LET last_bar == Row(df, DfLen(df) - 1)
     IN Store(IF in_position
              THEN close_trade(cfg, Self, last_bar.close, last_bar.time, "END_OF_DATA")
              ELSE Self)
  /\ pc' = "done"
  /\ UNCHANGED <<df, cfg, i, start_idx, end_idx, runs, previous, sweep>>

\* a run_backtest that returns with the last trade still open
ForcedClose_Skipped(c, d, self, end) == self

\* "Close any remaining open trades" after the loop
ForcedClose(c, d, self, end) ==
  IF self.in_position
  THEN LET last_bar == Row(d, end - 1)
       IN close_trade(c, self, last_bar.close, last_bar.time, "END_OF_DATA")
  ELSE self

\* run_backtest after the loop: close what is still open
FinishRun ==
  /\ pc = "loop"
  /\ i >= end_idx
  /\ Store(ForcedClose(cfg, df, Self, end_idx))
  /\ pc' = "done"
  /\ UNCHANGED <<df, cfg, i, start_idx, end_idx, runs, previous, sweep>>

\* ------------------------------------------------------------- get_results
\* A quotient the engine reports is kept as numerator / denominator;
\* float('inf') is Infinity.
Ratio(n, d) == [num |-> n, den |-> d]

Infinity == [type |-> "inf"]

RatioEq(a, b) ==
  IF a = Infinity \/ b = Infinity THEN a = b
  ELSE a.num * b.den = b.num * a.den

\* trades_df[trades_df['win'] == True] and its complement, as index sets
WinningTrades(records) == {k \in 1 .. Len(records) : records[k].win}

LosingTrades(records) == {k \in 1 .. Len(records) : ~records[k].win}

\* sum of the profit column over the records selected by win = w
RECURSIVE ProfitSum(_, _, _)
ProfitSum(records, w, k) ==
  IF k = 0 THEN 0
  ELSE (IF records[k].win = w THEN records[k].profit ELSE 0)
         + ProfitSum(records, w, k - 1)

\* the peak taken as the maximum of the whole balance column
PeakAt_WholeColumn(b, k) ==
  CHOOSE p \in {b[m] : m \in 1 .. Len(b)} : \A m \in 1 .. Len(b) : p >= b[m]

\* balance.cummax() at position k of a balance column
RECURSIVE PeakAt(_, _)
PeakAt(b, k) == IF k = 1 THEN b[1] ELSE Max2(b[k], PeakAt(b, k - 1))

DrawdownAt(b, k) == PeakAt(b, k) - b[k]

\* (peak - balance).max()
MaxDrawdown(b) ==
  LET k == CHOOSE k \in 1 .. Len(b) :
             \A m \in 1 .. Len(b) : DrawdownAt(b, k) >= DrawdownAt(b, m)
  IN DrawdownAt(b, k)

\* ((peak - balance) / peak * 100).max()
MaxDrawdownPct(b) ==
  LET k == CHOOSE k \in 1 .. Len(b) :
             \A m \in 1 .. Len(b) :
                DrawdownAt(b, k) * PeakAt(b, m) >= DrawdownAt(b, m) * PeakAt(b, k)
  IN Ratio(100 * DrawdownAt(b, k), PeakAt(b, k))

\* the rejected_by_* entries an engine reports: none (basic), volume, trend
\* and strength (enhanced), all eight (ultra)
RejectedBy(c, self) ==
  [name \in {FilterOrder[k] : k \in 1 .. FilterCount(c)} |->
     self.rejected_trades[name]]

\* the result of a run without a closed trade: literal zeros
ZeroStatistics(c, final_balance, rejected) ==
  [total_trades |-> 0, winning_trades |-> 0, losing_trades |-> 0,
   win_rate |-> Ratio(0, 1), total_profit |-> 0, total_loss |-> 0,
   net_profit |-> 0, return_pct |-> Ratio(0, 1), max_drawdown |-> 0,
   max_drawdown_pct |-> Ratio(0, 1), avg_win |-> Ratio(0, 1),
   avg_loss |-> Ratio(0, 1), profit_factor |-> Ratio(0, 1),
   largest_win |-> 0, largest_loss |-> 0,
   final_balance |-> final_balance, initial_balance |-> c.initial_balance,
   rejected |-> rejected]

\* profit_factor without the zero-loss guard's sentinel
ProfitFactor_ZeroOnNoLoss(total_profit, total_loss) ==
  IF total_loss > 0 THEN Ratio(total_profit, total_loss) ELSE Ratio(0, 1)

\* total_profit / total_loss if total_loss > 0 else float('inf')
ProfitFactor(total_profit, total_loss) ==
  IF total_loss > 0 THEN Ratio(total_profit, total_loss) ELSE Infinity

\* the result computed from the trade and equity frames
TradeStatistics(c, records, balances, final_balance, rejected) ==
  LET winning == WinningTrades(records)
      losing == LosingTrades(records)
      total_profit == ProfitSum(records, TRUE, Len(records))
      total_loss == Abs(ProfitSum(records, FALSE, Len(records)))
  IN [total_trades |-> Len(records),
      winning_trades |-> Cardinality(winning),
      losing_trades |-> Cardinality(losing),
      win_rate |-> Ratio(100 * Cardinality(winning), Len(records)),
      total_profit |-> total_profit,
      total_loss |-> total_loss,
      net_profit |-> total_profit - total_loss,
      return_pct |-> Ratio(100 * (final_balance - c.initial_balance),
                           c.initial_balance),
      max_drawdown |-> MaxDrawdown(balances),
      max_drawdown_pct |-> MaxDrawdownPct(balances),
      avg_win |-> IF winning = {} THEN Ratio(0, 1)
                  ELSE Ratio(total_profit, Cardinality(winning)),
      avg_loss |-> IF losing = {} THEN Ratio(0, 1)
                   ELSE Ratio(ProfitSum(records, FALSE, Len(records)),
                              Cardinality(losing)),
      profit_factor |-> ProfitFactor(total_profit, total_loss),
      largest_win |-> IF winning = {} THEN 0
                      ELSE records[CHOOSE k \in winning : \A m \in winning :
                             records[k].profit >= records[m].profit].profit,
      largest_loss |-> IF losing = {} THEN 0
                       ELSE records[CHOOSE k \in losing : \A m \in losing :
                              records[k].profit <= records[m].profit].profit,
      final_balance |-> final_balance,
      initial_balance |-> c.initial_balance,
      rejected |-> rejected]

\* get_results without the early return for an empty trade list
Statistics_NoEmptyCase(c, records, balances, final_balance, rejected) ==
  TradeStatistics(c, records, balances, final_balance, rejected)

\* the statistics get_results derives from a trade list, a balance column,
\* the final balance and the rejection counters
Statistics(c, records, balances, final_balance, rejected) ==
  IF Len(records) = 0 THEN ZeroStatistics(c, final_balance, rejected)
  ELSE TradeStatistics(c, records, balances, final_balance, rejected)

\* get_results: the statistics of self.trades, the balance column of
\* self.equity_curve, self.balance and self.rejected_trades
get_results(c, self) ==
  Statistics(c, self.trades,
             [k \in 1 .. Len(self.equity_curve) |-> self.equity_curve[k].balance],
             self.balance, RejectedBy(c, self))

\* --------------------------------------------------- a whole run as a value
\* the main loop of run_backtest over rows k .. end - 1
RECURSIVE ReplayLoop(_, _, _, _, _)
ReplayLoop(c, d, self, k, end) ==
  IF k >= end THEN self
  ELSE ReplayLoop(c, d, ProcessBar(c, d, self, k), k + 1, end)

\* run_backtest on a freshly constructed engine: the engine it leaves
run_backtest(c, d) ==
  LET end == ResolveEnd(c, d)
  IN ForcedClose(c, d, ReplayLoop(c, d, Reset(c, Fresh(c)), ResolveStart(c), end),
                 end)

\* what a finished run_backtest call left in the engine and returned
Outcome ==
  [trades |-> trades, equity_curve |-> equity_curve, balance |-> balance,
   rejected_trades |-> rejected_trades, results |-> get_results(cfg, Self)]

\* a second run_backtest call on an engine that completed a run
Rerun ==
  /\ pc = "done"
  /\ runs < MaxRuns
  /\ BeginRun
  /\ previous' = Outcome

Next == StartRun \/ BarStep \/ FinishRun

Spec == Init /\ [][Next]_vars

\* engines that are run again after they completed a run
RerunConfigs == {c \in Configs : c.max_daily_trades = 1}

InitRerun == Init /\ cfg \in RerunConfigs

NextRerun == StartRun \/ BarStep \/ FinishRun \/ Rerun

SpecRerun == InitRerun /\ [][NextRerun]_vars

\* ================================================================ properties
\* helpers of the properties
OpenCount == IF in_position THEN 1 ELSE 0

\* BarStep is taking place
InBarStep == pc = "loop" /\ i < end_idx /\ i' = i + 1

\* a new trade is entered by this step
Opened ==
  /\ current_trade' # None
  /\ IF current_trade = None THEN TRUE
     ELSE current_trade'.entry_time # current_trade.entry_time

\* the row of df stamped with time t
RowAt(t) == CHOOSE k \in 0 .. DfLen(df) - 1 : Row(df, k).time = t

RECURSIVE SumProfit(_, _)
SumProfit(records, k) ==
  IF k = 0 THEN 0 ELSE records[k].profit + SumProfit(records, k - 1)

\* the trade records whose exit_time is at or before t, as a count-prefix:
\* records are appended in exit order
RECURSIVE ProfitClosedBy(_, _, _)
ProfitClosedBy(records, t, k) ==
  IF k = 0 THEN 0
  ELSE (IF records[k].exit_time <= t THEN records[k].profit ELSE 0)
         + ProfitClosedBy(records, t, k - 1)

\* number of trades entered on a calendar date: closed records plus the
\* open trade
OpenedOn(date) ==
  Cardinality({k \in 1 .. Len(trades) : DateOf(trades[k].entry_time) = date})
    + (IF current_trade # None /\ DateOf(current_trade.entry_time) = date
       THEN 1 ELSE 0)

Dates == {DateOf(Row(df, k).time) : k \in 0 .. DfLen(df) - 1}

\* row j has been processed, the engine was flat after its exit check, and
\* the pipeline would accept a signal there
QualifyingSignalAt(j) ==
  /\ pc # "idle"
  /\ j >= start_idx
  /\ j < i
  /\ ~equity_curve[j - start_idx + 1].in_position
  /\ LET box == identify_consolidation(cfg, df, j)
     IN /\ box.is_consolidating
        /\ detect_breakout(cfg, df, ZeroRejections, j, box.high_level,
                           box.low_level).signal # "NONE"

EnteredAt(j) ==
  \/ \E k \in 1 .. Len(trades) : trades[k].entry_time = Row(df, j).time
  \/ current_trade # None /\ current_trade.entry_time = Row(df, j).time

\* C1: at most one trade is open: in_position holds exactly when
\* current_trade is set, and a step that enters a trade found the engine
\* flat after its exit check, i.e. the trade that was open before the step
\* has been closed and recorded, never overwritten.
C1_SinglePosition ==
  [][ /\ (in_position <=> current_trade # None)
      /\ (in_position' <=> current_trade' # None)
      /\ (Opened => Len(trades') = Len(trades) + OpenCount) ]_vars

\* C1 witness: a second trade is open after an earlier one was closed
C1_Witness == in_position /\ current_trade # None /\ Len(trades) >= 1

\* C2 (as claimed): every equity sample's balance is initial_balance plus
\* the profit of every trade whose exit_time is at or before the sample time
C2_EquityMatchesClosedProfit ==
  \A k \in 1 .. Len(equity_curve) :
     equity_curve[k].balance =
       cfg.initial_balance
         + ProfitClosedBy(trades, equity_curve[k].time, Len(trades))

\* C3: on no calendar date does the number of trades entered exceed
\* max_daily_trades
C3_DailyCap == \A date \in Dates : OpenedOn(date) <= cfg.max_daily_trades

\* C3 witness: with max_daily_trades = 1, a date that already has its one
\* trade sees a second qualifying signal while flat, and no trade is entered
C3_Witness ==
  /\ cfg.max_daily_trades = 1
  /\ \E j \in 0 .. DfLen(df) - 1 :
        /\ QualifyingSignalAt(j)
        /\ ~EnteredAt(j)
        /\ OpenedOn(DateOf(Row(df, j).time)) = 1

\* the stop level the exit test of this step uses for the open trade
EffectiveStop ==
  IF Trailing(cfg)
  THEN update_trailing_stop(cfg, Self, Row(df, i).high,
                            Row(df, i).low).current_trade.trailing_stop
  ELSE current_trade.stop_loss

\* the bar of this step reaches both the take-profit and the stop of the
\* trade that is open when the step starts
TouchesBoth ==
  /\ in_position
  /\ current_trade # None
  /\ IF current_trade.type = "BUY"
     THEN Row(df, i).high >= current_trade.take_profit
          /\ Row(df, i).low <= EffectiveStop
     ELSE Row(df, i).low <= current_trade.take_profit
          /\ Row(df, i).high >= EffectiveStop

\* C4: a bar that reaches both levels of the open trade closes it at the
\* take-profit price, reason TP, profit (take_profit - entry) x lot_size x 100
\* for BUY and (entry - take_profit) x lot_size x 100 for SELL
C4_TakeProfitFirst ==
  [][ (InBarStep /\ TouchesBoth) =>
        /\ Len(trades') = Len(trades) + 1
        /\ LET r == trades'[Len(trades')]
           IN /\ r.entry_time = current_trade.entry_time
              /\ r.exit_time = Row(df, i).time
              /\ r.exit_price = current_trade.take_profit
              /\ r.exit_reason = "TP"
              /\ r.profit =
                   (IF current_trade.type = "BUY"
                    THEN current_trade.take_profit - current_trade.entry_price
                    ELSE current_trade.entry_price - current_trade.take_profit)
                     * cfg.lot_size_x100 ]_vars

\* C4 witness: a recorded BUY trade closed with TP on a bar whose low was at
\* or below its stop-loss
C4_Witness ==
  \E k \in 1 .. Len(trades) :
     /\ trades[k].type = "BUY"
     /\ trades[k].exit_reason = "TP"
     /\ Row(df, RowAt(trades[k].exit_time)).high >= trades[k].take_profit
     /\ Row(df, RowAt(trades[k].exit_time)).low <= trades[k].stop_loss
     /\ trades[k].take_profit > trades[k].stop_loss

\* C5: when the loop ends with a trade still open, that trade is closed at
\* the close and time of row end_idx - 1 with reason END_OF_DATA, and the
\* run always finishes flat
C5_ForcedClose ==
  [][ (pc = "loop" /\ pc' = "done") =>
        /\ ~in_position'
        /\ current_trade' = None
        /\ IF in_position
           THEN /\ Len(trades') = Len(trades) + 1
                /\ SubSeq(trades', 1, Len(trades)) = trades
                /\ LET r == trades'[Len(trades')]
                   IN /\ r.entry_time = current_trade.entry_time
                      /\ r.exit_price = Row(df, end_idx - 1).close
                      /\ r.exit_time = Row(df, end_idx - 1).time
                      /\ r.exit_reason = "END_OF_DATA"
           ELSE trades' = trades ]_vars

\* C5 witness: a finished run whose last record was forced at end of data
C5_Witness ==
  /\ pc = "done"
  /\ Len(trades) >= 1
  /\ trades[Len(trades)].exit_reason = "END_OF_DATA"
  /\ ~in_position

\* C6: one equity sample per processed bar, in bar order: i - start_idx
\* samples while replaying, end_idx - start_idx when the run is done, and
\* the k-th sample carries the time of row start_idx + k - 1
C6_OneSamplePerBar ==
  /\ pc = "loop" => Len(equity_curve) = i - start_idx
  /\ pc = "done" => Len(equity_curve) = end_idx - start_idx
  /\ pc # "idle" =>
       \A k \in 1 .. Len(equity_curve) :
          equity_curve[k].time = Row(df, start_idx + k - 1).time

\* C6 witness: a finished run with samples taken both flat and in position
C6_Witness ==
  /\ pc = "done"
  /\ \E k \in 1 .. Len(equity_curve) : equity_curve[k].in_position
  /\ \E k \in 1 .. Len(equity_curve) : ~equity_curve[k].in_position

\* the same trade is open before and after the step
SameTradeOpen ==
  /\ current_trade # None
  /\ current_trade' # None
  /\ current_trade'.entry_time = current_trade.entry_time

\* the trailing stop of the open trade is on the protective side of its
\* initial stop-loss
TrailingWithinInitial(trade) ==
  IF trade.type = "BUY" THEN trade.trailing_stop >= trade.stop_loss
  ELSE trade.trailing_stop <= trade.stop_loss

\* C7: with trailing stops on, the trailing stop of an open trade never
\* loosens: BUY non-decreasing and never below stop_loss, SELL
\* non-increasing and never above stop_loss
C7_TrailingNeverLoosens ==
  [][ Trailing(cfg) =>
        /\ (current_trade' # None => TrailingWithinInitial(current_trade'))
        /\ (SameTradeOpen =>
              IF current_trade.type = "BUY"
              THEN current_trade'.trailing_stop >= current_trade.trailing_stop
              ELSE current_trade'.trailing_stop <= current_trade.trailing_stop) ]_vars

\* C7 witness: an open BUY trade whose trailing stop has been ratcheted
\* above its initial stop-loss
C7_Witness ==
  /\ Trailing(cfg)
  /\ current_trade # None
  /\ current_trade.type = "BUY"
  /\ current_trade.trailing_stop > current_trade.stop_loss
  /\ highest_price_in_trade > current_trade.entry_price

RECURSIVE SumRejected(_, _)
SumRejected(rejected, k) ==
  IF k = 0 THEN 0 ELSE rejected[FilterOrder[k]] + SumRejected(rejected, k - 1)

TotalRejected == SumRejected(rejected_trades, Len(FilterOrder))

\* trades entered on the date of row j before row j
EntriesBefore(j) ==
  LET t == Row(df, j).time
  IN Cardinality({k \in 1 .. Len(trades) :
                    /\ DateOf(trades[k].entry_time) = DateOf(t)
                    /\ trades[k].entry_time < t})
       + (IF /\ current_trade # None
             /\ DateOf(current_trade.entry_time) = DateOf(t)
             /\ current_trade.entry_time < t
          THEN 1 ELSE 0)

\* the box and the crossing at row j, in the words of the specification
BoxAt(j) == identify_consolidation(cfg, df, j)

BuyCross(j, high_level) ==
  j >= 1 /\ Row(df, j - 1).close <= high_level /\ Row(df, j).close > high_level

SellCross(j, low_level) ==
  j >= 1 /\ Row(df, j - 1).close >= low_level /\ Row(df, j).close < low_level

CrossAt(j) ==
  BuyCross(j, BoxAt(j).high_level) \/ SellCross(j, BoxAt(j).low_level)

\* the filters of the engine that reject the crossing at row j
FailingAt(j) ==
  {k \in 1 .. FilterCount(cfg) :
     ~FilterPasses(cfg, df, j, BoxAt(j).high_level, BoxAt(j).low_level,
                   IF BuyCross(j, BoxAt(j).high_level) THEN "BUY" ELSE "SELL",
                   FilterOrder[k])}

FirstFailingAt(j) == CHOOSE k \in FailingAt(j) : \A m \in FailingAt(j) : k <= m

\* row j was processed and a raw signal was evaluated there: flat after the
\* exit check, date under its cap, box consolidating, a crossing
RawEvaluatedAt(j) ==
  /\ pc # "idle"
  /\ j >= start_idx
  /\ j < i
  /\ ~equity_curve[j - start_idx + 1].in_position
  /\ EntriesBefore(j) < cfg.max_daily_trades
  /\ BoxAt(j).is_consolidating
  /\ CrossAt(j)

RawSignalCount == Cardinality({j \in 0 .. DfLen(df) - 1 : RawEvaluatedAt(j)})

\* the step processes row i and evaluates the detector on it
DetectorReached ==
  /\ InBarStep
  /\ ~equity_curve'[Len(equity_curve')].in_position
  /\ DailyGet(daily_trades_count, DateOf(Row(df, i).time)) < cfg.max_daily_trades
  /\ BoxAt(i).is_consolidating

\* what the pipeline did at a processed row j: whether a raw signal was
\* evaluated there and the filters of the engine that reject it
Verdict(j) ==
  LET evaluated == RawEvaluatedAt(j)
  IN [evaluated |-> evaluated,
      failing |-> IF evaluated THEN FailingAt(j) ELSE {}]

\* C8: every raw signal evaluated so far was either accepted (it entered a
\* trade) or charged to exactly one counter, that of the first failing
\* filter in the order volume, trend, strength, rsi, quality, time,
\* false_breakout, mtf; hence raw signals = entries + sum of the counters
C8_RejectionAccounting ==
  pc # "idle" =>
    LET v == [j \in start_idx .. i - 1 |-> Verdict(j)]
        raw == {j \in DOMAIN v : v[j].evaluated}
        accepted == {j \in raw : v[j].failing = {}}
        charged(k) == {j \in raw \ accepted :
                         \A m \in v[j].failing : k <= m /\ k \in v[j].failing}
    IN /\ \A k \in 1 .. Len(FilterOrder) :
             rejected_trades[FilterOrder[k]] = Cardinality(charged(k))
       /\ Len(trades) + OpenCount = Cardinality(accepted)
       /\ \A j \in accepted : EnteredAt(j)
       /\ Cardinality(raw) = Len(trades) + OpenCount + TotalRejected

\* C8 witness: a processed raw signal that two or more filters reject has
\* been charged once
C8_Witness ==
  \E j \in 0 .. DfLen(df) - 1 :
     /\ RawEvaluatedAt(j)
     /\ Cardinality(FailingAt(j)) >= 2
     /\ rejected_trades[FilterOrder[FirstFailingAt(j)]] >= 1
     /\ TotalRejected = 1

\* the levels at which the crossing tests change their answer
Levels == {Row(df, k).close : k \in 0 .. DfLen(df) - 1} \cup {WarmBar.high}

\* the raw rule at row j as a function of (high_level, low_level)
RawRuleHolds(j) ==
  \A hl \in Levels : \A ll \in Levels :
     LET signal == RawSignal(df, j, hl, ll)
     IN IF ll > hl THEN TRUE
        ELSE /\ (signal = "BUY") <=> BuyCross(j, hl)
             /\ (signal = "SELL") <=> SellCross(j, ll)
             /\ (signal = "NONE") <=> (~BuyCross(j, hl) /\ ~SellCross(j, ll))
             /\ (j = 0 => signal = "NONE")

\* C9: the raw signal at row i is BUY iff close[i-1] <= high_level and
\* close[i] > high_level, SELL iff close[i-1] >= low_level and
\* close[i] < low_level, none otherwise and none at row 0; in a run a
\* signal shows as an entry of that direction or as one rejection
C9_RawSignalRule ==
  [][ /\ (pc = "idle" => RawRuleHolds(0))
      /\ (InBarStep => RawRuleHolds(i))
      /\ (DetectorReached =>
            /\ CrossAt(i) <=> (Opened \/ TotalRejected' = TotalRejected + 1)
            /\ (Opened /\ current_trade'.type = "BUY")
                 => BuyCross(i, BoxAt(i).high_level)
            /\ (Opened /\ current_trade'.type = "SELL")
                 => SellCross(i, BoxAt(i).low_level)) ]_vars

\* C9 witness: a run that entered a BUY and later a SELL
C9_Witness ==
  /\ Len(trades) >= 1
  /\ trades[1].type = "BUY"
  /\ current_trade # None
  /\ current_trade.type = "SELL"

\* C10: identify_consolidation at row i with lookback N reads rows
\* i-N .. i-1 only: high_level is their highest high, low_level their lowest
\* low, consolidating iff (high_level - low_level) / mean(close) is below
\* breakout_threshold; with i < N it returns the empty, non-consolidating
\* result.  Stated for the row the replay is about to process.
C10_ConsolidationWindow ==
  (pc = "loop" /\ i < end_idx) =>
     LET idx == i
         n == cfg.consolidation_periods
         r == identify_consolidation(cfg, df, idx)
         window == (idx - n) .. (idx - 1)
     IN IF idx < n
        THEN r = NoBox /\ ~r.is_consolidating
        ELSE /\ \E k \in window : Row(df, k).high = r.high_level
             /\ \A k \in window : Row(df, k).high <= r.high_level
             /\ \E k \in window : Row(df, k).low = r.low_level
             /\ \A k \in window : Row(df, k).low >= r.low_level
             /\ r.box_range = r.high_level - r.low_level
             /\ r.is_consolidating <=>
                  (r.high_level - r.low_level) * n * cfg.breakout_threshold.den
                    < cfg.breakout_threshold.num * SumCol(df, "close", idx - n, idx)

\* C10 witness: a finished run that called the detector with fewer than N
\* prior bars and later entered a trade from a full window
C10_Witness ==
  /\ pc = "done"
  /\ start_idx < cfg.consolidation_periods
  /\ Len(trades) >= 1
  /\ ~identify_consolidation(cfg, df, start_idx).is_consolidating
  /\ identify_consolidation(cfg, df, RowAt(trades[1].entry_time)).is_consolidating

\* every option of the enhanced and ultra constructors is switched off
AllOptionsOff(c) ==
  /\ ~c.use_trend_filter
  /\ ~c.use_breakout_strength
  /\ ~c.use_atr_stops
  /\ ~c.use_rsi_filter
  /\ ~c.use_consolidation_quality
  /\ ~c.use_time_filter
  /\ ~c.use_trailing_stop
  /\ ~c.use_false_breakout_filter
  /\ ~c.use_mtf_confirmation

\* C11 (as claimed): an enhanced or ultra engine with every option off
\* finishes with the trade list and the balance of the basic engine run on
\* the same series with the same core parameters and replay bounds
C11_FiltersOffMatchesBasic ==
  (pc = "done" /\ HasFilters(cfg) /\ AllOptionsOff(cfg)) =>
     LET basic == run_backtest([cfg EXCEPT !.engine = "basic"], df)
     IN /\ trades = basic.trades
        /\ balance = basic.balance

\* the aggregate recomputed from a trade list alone: the balance column is
\* the initial balance followed by the balance each record carries, the
\* final balance is that of the last record
AggregateTrades(c, records) ==
  LET balances == <<c.initial_balance>>
                    \o [k \in 1 .. Len(records) |-> records[k].balance]
  IN Statistics(c, records, balances, balances[Len(balances)], <<>>)

\* C12 (as claimed): the result a finished run reports equals the aggregate
\* recomputed from its trade list alone, in trade counts, win rate, profit
\* and loss totals, profit factor, drawdown and final balance
C12_AggregateRoundTrip ==
  pc = "done" =>
    LET live == get_results(cfg, Self)
        again == AggregateTrades(cfg, trades)
    IN /\ live.total_trades = again.total_trades
       /\ live.winning_trades = again.winning_trades
       /\ live.losing_trades = again.losing_trades
       /\ RatioEq(live.win_rate, again.win_rate)
       /\ live.total_profit = again.total_profit
       /\ live.total_loss = again.total_loss
       /\ live.net_profit = again.net_profit
       /\ RatioEq(live.profit_factor, again.profit_factor)
       /\ live.max_drawdown = again.max_drawdown
       /\ RatioEq(live.max_drawdown_pct, again.max_drawdown_pct)
       /\ live.final_balance = again.final_balance

\* C13: a loop iteration appends exactly one sample, stamped with its bar;
\* the sample is taken after the exit check (it carries the balance and the
\* flat state an exit on this bar produced) and before the entry
\* evaluation (a trade entered on this bar does not show in it), and the
\* whole iteration is done when the index advances
C13_StepOrder ==
  [][ InBarStep =>
        LET sample == equity_curve'[Len(equity_curve')]
            exit_made == Len(trades') = Len(trades) + 1
        IN /\ Len(equity_curve') = Len(equity_curve) + 1
           /\ sample.time = Row(df, i).time
           /\ sample.balance = balance'
           /\ Len(trades') \in {Len(trades), Len(trades) + 1}
           /\ exit_made =>
                /\ in_position
                /\ ~sample.in_position
                /\ trades'[Len(trades')].exit_time = sample.time
                /\ sample.balance = trades'[Len(trades')].balance
                /\ sample.balance = balance + trades'[Len(trades')].profit
           /\ ~exit_made =>
                /\ sample.in_position = in_position
                /\ sample.balance = balance
           /\ Opened =>
                /\ ~sample.in_position
                /\ in_position'
                /\ current_trade'.entry_time = sample.time ]_vars

\* C13 witness: a bar on which one trade was closed at a profit or loss and
\* another entered: its sample carries the new balance and is flat
C13_Witness ==
  /\ in_position
  /\ Len(trades) >= 1
  /\ Len(equity_curve) >= 1
  /\ LET sample == equity_curve[Len(equity_curve)]
         closed == trades[Len(trades)]
     IN /\ closed.exit_time = sample.time
        /\ current_trade.entry_time = sample.time
        /\ ~sample.in_position
        /\ closed.profit # 0
        /\ sample.balance = cfg.initial_balance + closed.profit

\* the series d with every row from row n on blanked: two series that agree
\* on rows 0 .. n-1 (and in length and bar times) have the same Masked(., n)
Masked(d, n) ==
  [k \in 1 .. Len(d) |->
     IF k <= n THEN d[k]
     ELSE [d[k] EXCEPT !.high = 0, !.low = 0, !.close = 0, !.tick_volume = 0]]

\* the false-breakout confirmation, the one filter that reads later bars
LooksAhead(c) == IsUltra(c) /\ c.use_false_breakout_filter

\* the windows the engine evaluates at row idx: the box, the moving
\* averages, the ATR, the RSI and the mean volume
WindowsAt(c, d, idx) ==
  [box |-> identify_consolidation(c, d, idx),
   fast_ma |-> calculate_sma(d, fast_ma_period, idx),
   slow_ma |-> calculate_sma(d, c.trend_period, idx),
   htf_ma |-> calculate_sma(d, c.higher_tf_period, idx),
   atr |-> calculate_atr(d, c.atr_period, idx),
   rsi |-> calculate_rsi(d, c.rsi_period, idx),
   volume |-> IF idx < volume_period THEN 0
              ELSE SumCol(d, "tick_volume", idx - volume_period, idx)]

\* C14: with the false-breakout filter off, every window evaluated at row
\* i reads rows up to i-1 only (blanking rows i.. leaves it unchanged), and
\* the engine after processing row i is a function of rows 0 .. i
\* (blanking rows i+1.. leaves it unchanged)
C14_NoLookAhead ==
  [][ (InBarStep /\ ~LooksAhead(cfg)) =>
        /\ WindowsAt(cfg, df, i) = WindowsAt(cfg, Masked(df, i), i)
        /\ Self' = ProcessBar(cfg, Masked(df, i + 1), Self, i) ]_vars

\* C14 witness: a trade was entered on a row that is not the last of the
\* series, by an engine without the false-breakout filter
C14_Witness ==
  /\ ~LooksAhead(cfg)
  /\ HasFilters(cfg)
  /\ cfg.use_trend_filter
  /\ current_trade # None
  /\ RowAt(current_trade.entry_time) < DfLen(df) - 1

\* position of the false-breakout filter in the order of the pipeline
FalseBreakoutPosition == CHOOSE k \in 1 .. Len(FilterOrder) : FilterOrder[k] = "false_breakout"

\* fewer than confirmation_bars rows follow row j
ShortOfBars(j) == j + cfg.confirmation_bars >= DfLen(df)

\* the crossing at row j passes every filter ahead of the false-breakout filter
ReachesConfirmation(j) ==
  /\ CrossAt(j)
  /\ \A k \in FailingAt(j) : k >= FalseBreakoutPosition

\* C15: the confirmation scan reads rows of the series only, and a signal
\* with fewer than confirmation_bars rows after it is vetoed: no trade is
\* entered and the false_breakout counter, and no other, goes up by one
C15_ScanStaysInSeries ==
  [][ (InBarStep /\ LooksAhead(cfg)) =>
        /\ ConfirmationRows(cfg, df, i) \subseteq (i + 1) .. (DfLen(df) - 1)
        /\ (DetectorReached /\ ReachesConfirmation(i) /\ ShortOfBars(i)) =>
             /\ ~Opened
             /\ current_trade' = None
             /\ rejected_trades' =
                  [rejected_trades EXCEPT !["false_breakout"] = @ + 1] ]_vars

\* C15 witness: a processed signal with one row after it, one fewer than
\* confirmation_bars, was charged to false_breakout
C15_Witness ==
  /\ LooksAhead(cfg)
  /\ rejected_trades["false_breakout"] >= 1
  /\ \E j \in 0 .. DfLen(df) - 2 :
        /\ RawEvaluatedAt(j)
        /\ ShortOfBars(j)
        /\ ReachesConfirmation(j)
        /\ TotalRejected = 1

\* C16 (as claimed): with the multi-timeframe filter on, a signal at a row
\* with fewer than higher_tf_period rows before it is rejected: no trade is
\* entered and one rejection is counted
C16_MtfVetoesOnMissing ==
  [][ ( /\ DetectorReached
        /\ IsUltra(cfg)
        /\ cfg.use_mtf_confirmation
        /\ CrossAt(i)
        /\ calculate_sma(df, cfg.higher_tf_period, i) = None ) =>
        /\ ~Opened
        /\ TotalRejected' = TotalRejected + 1 ]_vars

\* a moving average of the trend filter cannot be computed at row j
MissingTrendMA(j) == j < fast_ma_period \/ j < cfg.trend_period

\* C17: with the trend filter on, check_trend rejects BUY and SELL alike at
\* every row below the fast period 20 or below trend_period; in a run such
\* a signal enters no trade and, having passed the volume filter, raises
\* the trend counter and no other by one
C17_TrendVetoesOnMissing ==
  [][ (HasFilters(cfg) /\ cfg.use_trend_filter) =>
        /\ pc = "idle" =>
             \A idx \in 0 .. DfLen(df) - 1 : \A signal \in {"BUY", "SELL"} :
                MissingTrendMA(idx) => ~check_trend(cfg, df, idx, signal)
        /\ (DetectorReached /\ CrossAt(i) /\ MissingTrendMA(i)) =>
             /\ ~Opened
             /\ current_trade' = None
             /\ check_volume(cfg, df, i) =>
                  rejected_trades' = [rejected_trades EXCEPT !["trend"] = @ + 1] ]_vars

\* C17 witness: a processed signal at a row below trend_period passed the
\* volume filter and was charged to trend
C17_Witness ==
  /\ HasFilters(cfg)
  /\ cfg.use_trend_filter
  /\ rejected_trades["trend"] = 1
  /\ TotalRejected = 1
  /\ \E j \in 0 .. DfLen(df) - 1 :
        /\ RawEvaluatedAt(j)
        /\ MissingTrendMA(j)
        /\ check_volume(cfg, df, j)
        /\ ~EnteredAt(j)

\* C18: run_backtest starts from reset run state (balance, position, trade
\* list, equity curve, daily counters, rejection counters), so a finished
\* run leaves and returns what run_backtest yields on a freshly constructed
\* engine, and a second call on the same instance leaves and returns what
\* the first call did
C18_RerunReproduces ==
  /\ (pc = "loop" /\ i = start_idx) =>
       /\ balance = cfg.initial_balance
       /\ ~in_position
       /\ current_trade = None
       /\ trades = <<>>
       /\ equity_curve = <<>>
       /\ daily_trades_count = <<>>
       /\ rejected_trades = ZeroRejections
  /\ pc = "done" =>
       LET fresh == run_backtest(cfg, df)
       IN /\ trades = fresh.trades
          /\ equity_curve = fresh.equity_curve
          /\ balance = fresh.balance
          /\ rejected_trades = fresh.rejected_trades
          /\ get_results(cfg, Self) = get_results(cfg, fresh)
  /\ (pc = "done" /\ runs >= 2) => Outcome = previous

\* C18 witness: a second run on the same instance has finished, with trades
\* and rejections to reproduce
C18_Witness ==
  /\ pc = "done"
  /\ runs = 2
  /\ previous # None
  /\ Len(trades) >= 1
  /\ TotalRejected >= 1

\* C19 (as claimed): the levels of the open trade lie strictly on the right
\* sides of its entry price
C19_DirectionalLevels ==
  current_trade # None =>
    IF current_trade.type = "BUY"
    THEN /\ current_trade.stop_loss < current_trade.entry_price
         /\ current_trade.entry_price < current_trade.take_profit
    ELSE /\ current_trade.take_profit < current_trade.entry_price
         /\ current_trade.entry_price < current_trade.stop_loss

\* the levels of the trade entered at row j come from the box calculation
BoxLevelsAt(j) ==
  ~(HasFilters(cfg) /\ cfg.use_atr_stops
      /\ calculate_atr(df, cfg.atr_period, j) # None)

\* the open trade has its stop 1.2 x box range and its target
\* risk_reward_ratio x the stop distance away from the entry, on the sides
\* its direction asks for
BoxLevelsRule ==
  (current_trade # None /\ BoxLevelsAt(RowAt(current_trade.entry_time))) =>
     LET box_range == BoxAt(RowAt(current_trade.entry_time)).box_range
         sign == IF current_trade.type = "BUY" THEN 1 ELSE 0 - 1
         stop_distance == sign * (current_trade.entry_price - current_trade.stop_loss)
         target_distance == sign * (current_trade.take_profit - current_trade.entry_price)
     IN /\ 10 * stop_distance = 12 * box_range
        /\ target_distance = stop_distance * cfg.risk_reward_ratio

\* the basic engine with risk:reward 2 has finished the scenario series
ScenarioRun ==
  /\ pc = "done"
  /\ df = ScenarioSeries
  /\ cfg.engine = "basic"
  /\ cfg.risk_reward_ratio = 2

\* one BUY entered at row 25 at 10100 with stop 10040 and target 10220
ScenarioOutcome ==
  /\ Len(trades) = 1
  /\ trades[1].type = "BUY"
  /\ trades[1].entry_time = Row(df, 25).time
  /\ trades[1].entry_price = 10100
  /\ trades[1].stop_loss = 10040
  /\ trades[1].take_profit = 10220

\* C20 (as claimed): the box rule, and the scenario yields its one BUY for
\* every basic engine with risk:reward 2
C20_ScenarioAsClaimed ==
  /\ BoxLevelsRule
  /\ ScenarioRun => ScenarioOutcome

\* C20 (amended): the box rule, and the scenario yields its one BUY when
\* breakout_threshold is above the range ratio of the window (0.5 / 100.4),
\* i.e. when the window before row 25 counts as consolidating
C20_BoxLevels ==
  /\ BoxLevelsRule
  /\ (ScenarioRun /\ identify_consolidation(cfg, df, 25).is_consolidating)
       => ScenarioOutcome

\* C20 witness: the scenario run finished with its one BUY at 10040 / 10220
C20_Witness ==
  /\ ScenarioRun
  /\ identify_consolidation(cfg, df, 25).is_consolidating
  /\ Len(trades) = 1
  /\ trades[1].stop_loss = 10040
  /\ trades[1].take_profit = 10220

\* ------------------------------------------------------------ flat series
\* every bar of the series closes at the same price
ConstantClose(d) == \A k \in 0 .. DfLen(d) - 1 : Row(d, k).close = Row(d, 0).close

\* every bar of the series has high = low = close = the same price
PerfectlyFlat(d) ==
  /\ ConstantClose(d)
  /\ \A k \in 0 .. DfLen(d) - 1 :
        Row(d, k).high = Row(d, k).close /\ Row(d, k).low = Row(d, k).close

\* the rows the replay has processed so far
Processed == IF pc = "idle" THEN {} ELSE start_idx .. i - 1

\* no signal left the generator at any processed bar, and no trade was entered
NoSignalNoTrade ==
  /\ \A j \in Processed :
        detect_breakout(cfg, df, rejected_trades, j, BoxAt(j).high_level,
                        BoxAt(j).low_level).signal = "NONE"
  /\ trades = <<>>
  /\ ~in_position
  /\ TotalRejected = 0

\* the detector reported consolidating at every processed bar that has
\* consolidation_periods bars before it
ConsolidatingThroughout ==
  \A j \in Processed : j >= cfg.consolidation_periods => BoxAt(j).is_consolidating

\* C21 as stated: on a series whose bars all have the same close, the
\* detector reports consolidating at every bar with consolidation_periods
\* bars before it, no signal is emitted and the run has zero trades
C21_FlatAsClaimed ==
  ConstantClose(df) => ConsolidatingThroughout /\ NoSignalNoTrade

\* C21 amended: on a series whose bars all have the same close no signal is
\* emitted and the run has zero trades; when moreover every bar has
\* high = low = close, the detector reports consolidating at every bar with
\* consolidation_periods bars before it
C21_FlatSeries ==
  /\ ConstantClose(df) => NoSignalNoTrade
  /\ PerfectlyFlat(df) => ConsolidatingThroughout

\* C21 witness: a run over the perfectly flat series has ended, every bar
\* of it was sampled, and no trade exists
C21_Witness ==
  /\ pc = "done"
  /\ PerfectlyFlat(df)
  /\ Len(equity_curve) = end_idx - start_idx
  /\ Len(equity_curve) >= TailLen
  /\ trades = <<>>

\* ------------------------------------------------------- the result record
\* the result the finished run returns
Results == get_results(cfg, Self)

\* C22: a run that closed no trade returns zero for every count and derived
\* metric, and final_balance = initial_balance
C22_ZeroTradeResult ==
  pc = "done" /\ trades = <<>> =>
    /\ Results.total_trades = 0
    /\ Results.winning_trades = 0
    /\ Results.losing_trades = 0
    /\ Results.win_rate = Ratio(0, 1)
    /\ Results.total_profit = 0
    /\ Results.total_loss = 0
    /\ Results.net_profit = 0
    /\ Results.return_pct = Ratio(0, 1)
    /\ Results.max_drawdown = 0
    /\ Results.max_drawdown_pct = Ratio(0, 1)
    /\ Results.avg_win = Ratio(0, 1)
    /\ Results.avg_loss = Ratio(0, 1)
    /\ Results.largest_win = 0
    /\ Results.largest_loss = 0
    /\ Results.profit_factor = Ratio(0, 1)
    /\ Results.final_balance = cfg.initial_balance
    /\ Results.initial_balance = cfg.initial_balance

\* C22 witness: a finished run in which signals were raised and rejected
\* but no trade was entered
C22_Witness ==
  /\ pc = "done"
  /\ trades = <<>>
  /\ TotalRejected >= 1
  /\ Len(equity_curve) >= TailLen

\* gross profit and gross loss of the closed trades, from the profit column
RECURSIVE GrossProfit(_, _)
GrossProfit(records, k) ==
  IF k = 0 THEN 0
  ELSE Max2(records[k].profit, 0) + GrossProfit(records, k - 1)

RECURSIVE GrossLoss(_, _)
GrossLoss(records, k) ==
  IF k = 0 THEN 0
  ELSE Max2(0 - records[k].profit, 0) + GrossLoss(records, k - 1)

\* C23: with at least one closed trade, profit_factor is gross profit over
\* gross loss when the gross loss is positive and the infinite sentinel
\* when it is zero
C23_ProfitFactor ==
  pc = "done" /\ Len(trades) >= 1 =>
    LET gross_profit == GrossProfit(trades, Len(trades))
        gross_loss == GrossLoss(trades, Len(trades))
        profit_factor == Results.profit_factor
    IN IF gross_loss > 0
       THEN /\ profit_factor # Infinity
            /\ profit_factor.den > 0
            /\ profit_factor.num * gross_loss = gross_profit * profit_factor.den
       ELSE profit_factor = Infinity

\* C23 witness: a finished run whose trades all closed without a loss, so
\* that the quotient has a zero denominator
C23_Witness ==
  /\ pc = "done"
  /\ Len(trades) >= 1
  /\ GrossLoss(trades, Len(trades)) = 0
  /\ GrossProfit(trades, Len(trades)) > 0

\* the balance column of the equity curve
Balances == [k \in 1 .. Len(equity_curve) |-> equity_curve[k].balance]

\* the highest balance among samples 1 .. k
RunningPeak(k) ==
  CHOOSE p \in {Balances[m] : m \in 1 .. k} : \A m \in 1 .. k : p >= Balances[m]

\* C24: in the result of every finished run win_rate lies in [0, 100],
\* max_drawdown and max_drawdown_pct are >= 0, and with a closed trade they
\* are the largest distance, absolute and relative, of a sample's balance
\* below the highest balance sampled up to it
C24_RangesAndPeak ==
  pc = "done" =>
    /\ Results.win_rate.den > 0
    /\ Results.win_rate.num >= 0
    /\ Results.win_rate.num <= 100 * Results.win_rate.den
    /\ Results.max_drawdown >= 0
    /\ Results.max_drawdown_pct.den > 0
    /\ Results.max_drawdown_pct.num >= 0
    /\ Len(trades) >= 1 =>
         LET n == Len(equity_curve)
             pct == Results.max_drawdown_pct
         IN /\ \A k \in 1 .. n : Results.max_drawdown >= RunningPeak(k) - Balances[k]
            /\ \E k \in 1 .. n : Results.max_drawdown = RunningPeak(k) - Balances[k]
            /\ \A k \in 1 .. n :
                  pct.num * RunningPeak(k) >= 100 * (RunningPeak(k) - Balances[k]) * pct.den
            /\ \E k \in 1 .. n :
                  pct.num * RunningPeak(k) = 100 * (RunningPeak(k) - Balances[k]) * pct.den

\* C24 witness: a finished run whose sampled balance rose above its start
\* and then fell, with a win rate strictly between 0 and 100
C24_Witness ==
  /\ pc = "done"
  /\ Results.max_drawdown > 0
  /\ Results.win_rate.num > 0
  /\ Results.win_rate.num < 100 * Results.win_rate.den
  /\ \E k \in 1 .. Len(equity_curve) : \E m \in k + 1 .. Len(equity_curve) :
        Balances[k] > Balances[1] /\ Balances[m] < Balances[k]

\* ---------------------------------------------------------- entry gating
\* the engine holds a trade after the exit check of the bar this step
\* processes (the equity sample records it)
InPositionAfterExit == equity_curve'[Len(equity_curve')].in_position

\* the date of the bar this step processes has used up its daily trades
DailyCapReached ==
  DailyGet(daily_trades_count, DateOf(Row(df, i).time)) >= cfg.max_daily_trades

\* C25: a bar on which the engine still holds a trade after the exit
\* check, or whose date has reached max_daily_trades, is not evaluated:
\* no trade is opened and no rejection or daily counter changes
C25_EvaluationGated ==
  [][InBarStep /\ (InPositionAfterExit \/ DailyCapReached) =>
       /\ ~Opened
       /\ rejected_trades' = rejected_trades
       /\ daily_trades_count' = daily_trades_count]_vars

\* the pipeline would have rejected a crossing at the processed row j
WouldReject(j) == BoxAt(j).is_consolidating /\ CrossAt(j) /\ FailingAt(j) # {}

\* C25 witness: a bar was skipped, flat, on a date at its daily cap while it
\* carried a crossing out of a consolidating box that a filter rejects, and
\* no rejection was counted
C25_Witness ==
  /\ TotalRejected = 0
  /\ \E j \in Processed :
        /\ ~equity_curve[j - start_idx + 1].in_position
        /\ EntriesBefore(j) >= cfg.max_daily_trades
        /\ WouldReject(j)

\* ------------------------------------------------------- daily counters
\* the calendar dates of the series
SeriesDates == {DateOf(Row(df, k).time) : k \in 0 .. DfLen(df) - 1}

\* C26: between the start and the end of a run, a step that enters a trade
\* raises the counter of the entry bar's date by one and leaves every
\* other date's counter as it was; every other step leaves all counters
\* as they were
C26_DailyCounterFrame ==
  [][pc = "loop" =>
       /\ DOMAIN daily_trades_count \subseteq DOMAIN daily_trades_count'
       /\ DOMAIN daily_trades_count' \subseteq SeriesDates
       /\ \A date \in SeriesDates :
             DailyGet(daily_trades_count', date) =
               DailyGet(daily_trades_count, date)
                 + (IF InBarStep /\ Opened /\ date = DateOf(Row(df, i).time)
                    THEN 1 ELSE 0)]_vars

\* C26 witness: a finished run entered trades on two calendar dates, and
\* both counters stand
C26_Witness ==
  /\ pc = "done"
  /\ \E d1 \in DOMAIN daily_trades_count : \E d2 \in DOMAIN daily_trades_count :
        /\ d1 # d2
        /\ daily_trades_count[d1] >= 1
        /\ daily_trades_count[d2] >= 1
        /\ OpenedOn(d1) = daily_trades_count[d1]
        /\ OpenedOn(d2) = daily_trades_count[d2]

\* ------------------------------------------------------ input validation
\* the bar times of the series never go back
MonotonicTimes(d) ==
  \A k \in 0 .. DfLen(d) - 2 : Row(d, k).time <= Row(d, k + 1).time

\* C27: a run given malformed input (here: bar times that go back) fails
\* before any bar is simulated, so an engine that has sampled a bar, or
\* finished a run, was given a well-formed series
C27_MalformedInputRejected ==
  (Len(equity_curve) >= 1 \/ pc = "done") => MonotonicTimes(df)

\* every period of the configuration is positive and both trading hours
\* lie in 0 .. 23
ValidConfiguration(c) ==
  /\ c.consolidation_periods >= 1
  /\ c.trend_period >= 1
  /\ c.atr_period >= 1
  /\ c.rsi_period >= 1
  /\ c.higher_tf_period >= 1
  /\ c.confirmation_bars >= 1
  /\ c.max_daily_trades >= 1
  /\ c.trading_start_hour \in 0 .. 23
  /\ c.trading_end_hour \in 0 .. 23

\* C28: an out-of-range configuration value is rejected when the engine
\* is constructed, so no run starts on an engine whose configuration has
\* a non-positive period or a trading hour outside 0 .. 23
C28_ConfigurationRejected == pc # "idle" => ValidConfiguration(cfg)

\* --------------------------------------------------- parameter sweeps
\* The optimizer routines rank runs by floating-point keys.  A key is kept
\* as an exact quotient in lowest terms, or one of the two infinities.
NegInfinity == [type |-> "-inf"]

RECURSIVE GCD(_, _)
GCD(a, b) == IF b = 0 THEN a ELSE GCD(b, a % b)

IsFinite(q) == q # Infinity /\ q # NegInfinity

\* a quotient in lowest terms with a positive denominator
Lowest(q) ==
  IF ~IsFinite(q) THEN q
  ELSE LET g == GCD(Abs(q.num), q.den)
       IN Ratio(q.num \div g, q.den \div g)

\* a / b < c / d for positive b and d, by integer and fractional parts
RECURSIVE FracLess(_, _, _, _)
FracLess(a, b, c, d) ==
  LET qa == a \div b
      qc == c \div d
      ra == a % b
      rc == c % d
  IN IF qa # qc THEN qa < qc
     ELSE IF rc = 0 THEN FALSE
     ELSE IF ra = 0 THEN TRUE
     ELSE FracLess(d, rc, b, ra)

\* x < y on floats
QLess(x, y) ==
  IF x = Infinity \/ y = NegInfinity THEN FALSE
  ELSE IF y = Infinity \/ x = NegInfinity THEN TRUE
  ELSE FracLess(x.num, x.den, y.num, y.den)

\* x + y and (wn / wd) * x on floats; inf absorbs
QAdd(x, y) ==
  IF x = Infinity \/ y = Infinity THEN Infinity
  ELSE Lowest(Ratio(x.num * y.den + y.num * x.den, x.den * y.den))

QScale(wn, wd, x) ==
  IF x = Infinity THEN Infinity
  ELSE Lowest(Ratio(wn * Lowest(x).num, wd * Lowest(x).den))

\* tuple comparison x < y: the first position that differs decides
RECURSIVE KeyLessFrom(_, _, _)
KeyLessFrom(x, y, k) ==
  IF k > Len(x) THEN FALSE
  ELSE IF QLess(x[k], y[k]) THEN TRUE
  ELSE IF QLess(y[k], x[k]) THEN FALSE
  ELSE KeyLessFrom(x, y, k + 1)

KeyLess(x, y) == KeyLessFrom(x, y, 1)

\* sorted(..., reverse=True) on [key, item] pairs: descending by key, equal
\* keys in their original order
InsertDescending(sorted, e) ==
  LET n == Cardinality({m \in 1 .. Len(sorted) : ~KeyLess(sorted[m].key, e.key)})
  IN SubSeq(sorted, 1, n) \o <<e>> \o SubSeq(sorted, n + 1, Len(sorted))

RECURSIVE SortedPrefix(_, _)
SortedPrefix(pairs, k) ==
  IF k = 0 THEN <<>>
  ELSE InsertDescending(SortedPrefix(pairs, k - 1), pairs[k])

SortedDescending(pairs) ==
  LET s == SortedPrefix(pairs, Len(pairs))
  IN [k \in 1 .. Len(s) |-> s[k].item]

\* seq[:n]
TopOf(seq, n) == SubSeq(seq, 1, Min2(n, Len(seq)))

\* The four optimizer routines: optimize_ultra_strategy (optimize_ultra.py),
\* optimize_ultra_fast (optimize_ultra_fast.py), optimize_enhanced
\* (compare_strategies.py) and run_optimization (run_backtest.py).
Routines ==
  {"optimize_ultra_strategy", "optimize_ultra_fast", "optimize_enhanced",
   "run_optimization"}

\* the routines that keep a run only when it has the minimum trade count
FiltersOnAppend(routine) ==
  routine \in {"optimize_ultra_strategy", "optimize_ultra_fast"}

\* the minimum trade count of a sweep (20, 15, 20 and 10 in the four
\* routines) and the length of its top lists (5, 10, 10 and 5), scaled to
\* the runs of the model
MinTrades == 1

TopN == 2

\* the parameter combinations a routine tries, scaled like Configs: the
\* ultra routines vary risk:reward, confirmation bars and touches around an
\* engine with every filter on; optimize_enhanced varies risk:reward and
\* the trend period; run_optimization varies risk:reward, the
\* consolidation period and the threshold
UltraCombination ==
  [AllFiltersOn(BaseConfig) EXCEPT !.lot_size_x100 = 1, !.max_daily_trades = 5,
                                   !.use_atr_stops = TRUE,
                                   !.rsi_period = WarmLen,
                                   !.higher_tf_period = WarmLen - 1]

EnhancedCombination ==
  [BaseConfig EXCEPT !.engine = "enhanced", !.lot_size_x100 = 1,
                     !.max_daily_trades = 5,
                     !.consolidation_periods = WarmLen - 1,
                     !.breakout_threshold = [num |-> 15, den |-> 1000],
                     !.use_trend_filter = TRUE, !.use_breakout_strength = TRUE,
                     !.use_atr_stops = TRUE]

BasicCombination ==
  [BaseConfig EXCEPT !.engine = "basic", !.lot_size_x100 = 1,
                     !.max_daily_trades = 5,
                     !.consolidation_periods = WarmLen - 1,
                     !.breakout_threshold = [num |-> 15, den |-> 1000]]

SweepGrid(routine) ==
  IF routine = "optimize_ultra_strategy"
  THEN { UltraCombination,
         [UltraCombination EXCEPT !.risk_reward_ratio = 3, !.min_touches = 3],
         [UltraCombination EXCEPT !.confirmation_bars = 2] }
  ELSE IF routine = "optimize_ultra_fast"
  THEN { UltraCombination,
         [UltraCombination EXCEPT !.risk_reward_ratio = 3, !.rsi_overbought = 75,
                                  !.rsi_oversold = 25],
         [UltraCombination EXCEPT !.confirmation_bars = 2, !.trend_period = 3] }
  ELSE IF routine = "optimize_enhanced"
  THEN { EnhancedCombination,
         [EnhancedCombination EXCEPT !.risk_reward_ratio = 3],
         [EnhancedCombination EXCEPT !.trend_period = WarmLen + 1,
                                     !.min_breakout_strength =
                                        [num |-> 150, den |-> 100]] }
  ELSE { BasicCombination,
         [BasicCombination EXCEPT !.risk_reward_ratio = 1],
         [BasicCombination EXCEPT !.consolidation_periods = WarmLen,
                                  !.breakout_threshold =
                                     [num |-> 15, den |-> 10000]] }

\* the orders in which the loops can enumerate a grid
Orders(grid) ==
  {g \in [1 .. Cardinality(grid) -> grid] :
     \A a, b \in 1 .. Cardinality(grid) : a # b => g[a] # g[b]}

\* the locals of a routine before its first iteration
SweepLocals(routine, grid) ==
  [routine |-> routine, grid |-> grid, current_test |-> 1,
   results |-> <<>>, best_score |-> NegInfinity, best_params |-> None,
   report |-> None]

\* the engine constructed once, ahead of the loops
SweepEngine_Hoisted(sw, k) == sw.grid[1]

\* the parameters the engine of iteration k is constructed with
SweepEngine(sw, k) == sw.grid[k]

\* the combined score a routine gives a run
Score(routine, r) ==
  IF routine = "optimize_ultra_strategy"
  THEN QAdd(QAdd(QScale(2, 5, r.win_rate), QScale(15, 1, r.profit_factor)),
            QScale(3, 10, r.return_pct))
  ELSE IF routine = "optimize_ultra_fast"
  THEN QAdd(QAdd(QScale(1, 2, r.win_rate), QScale(15, 1, r.profit_factor)),
            QScale(1, 5, r.return_pct))
  ELSE IF routine = "optimize_enhanced"
  THEN QAdd(QScale(2, 1, r.win_rate), Lowest(r.return_pct))
  ELSE Lowest(r.return_pct)

\* the dictionary a routine keeps of a run
SweepEntry(routine, params, result) ==
  [params |-> params, total_trades |-> result.total_trades,
   win_rate |-> Lowest(result.win_rate),
   return_pct |-> Lowest(result.return_pct),
   profit_factor |-> Lowest(result.profit_factor),
   max_drawdown_pct |-> Lowest(result.max_drawdown_pct),
   score |-> Score(routine, result)]

\* the end of a loop iteration: what the routine does with the result
RecordResult(sw, result) ==
  LET entry == SweepEntry(sw.routine, sw.grid[sw.current_test], result)
  IN IF FiltersOnAppend(sw.routine)
     THEN IF result.total_trades >= MinTrades
          THEN [sw EXCEPT !.results = Append(@, entry)]
          ELSE sw
     ELSE LET kept == [sw EXCEPT !.results = Append(@, entry)]
          IN IF QLess(sw.best_score, entry.score)
                /\ result.total_trades >= MinTrades
             THEN [kept EXCEPT !.best_score = entry.score,
                               !.best_params = entry]
             ELSE kept

\* sorted(results, key=..., reverse=True)[:TopN] for a key of entry fields
Ranked(results, fields) ==
  TopOf(SortedDescending(
          [k \in 1 .. Len(results) |->
             [key |-> [m \in 1 .. Len(fields) |-> results[k][fields[m]]],
              item |-> results[k]]]),
        TopN)

\* what a routine reports after its loops: the top lists and the best run
Report(sw) ==
  IF sw.routine = "optimize_ultra_strategy"
  THEN IF sw.results = <<>> THEN [lists |-> <<>>, best |-> None]
       ELSE [lists |-> << Ranked(sw.results, <<"win_rate", "profit_factor", "return_pct">>),
                          Ranked(sw.results, <<"profit_factor", "win_rate">>),
                          Ranked(sw.results, <<"return_pct", "win_rate">>) >>,
             best |-> SortedDescending(
                        [k \in 1 .. Len(sw.results) |->
                           [key |-> <<sw.results[k].score>>,
                            item |-> sw.results[k]]])[1]]
  ELSE IF sw.routine = "optimize_ultra_fast"
  THEN IF sw.results = <<>> THEN [lists |-> <<>>, best |-> None]
       ELSE [lists |-> << Ranked(sw.results, <<"win_rate", "profit_factor">>),
                          Ranked(sw.results, <<"profit_factor", "win_rate">>) >>,
             best |-> SortedDescending(
                        [k \in 1 .. Len(sw.results) |->
                           [key |-> <<sw.results[k].score>>,
                            item |-> sw.results[k]]])[1]]
  ELSE [lists |-> << Ranked(sw.results, <<"score">>) >>, best |-> sw.best_params]

\* the series the sweeps are run on
SweepBars ==
  { Shape(10200, 0, 0, 20), Shape(10200, 500, 0, 20), Shape(10000, 0, 0, 20),
    Shape(9900, 0, 0, 20) }

SweepSeries == SeriesOver(SpikeBar, SweepBars)

\* a routine about to run its first combination: the locals are set and
\* the first engine is constructed
InitSweep ==
  /\ df \in SweepSeries
  /\ sweep \in {SweepLocals(routine, grid) :
                  routine \in Routines, grid \in UNION {Orders(SweepGrid(r)) : r \in Routines}}
  /\ sweep.grid \in Orders(SweepGrid(sweep.routine))
  /\ cfg = SweepEngine(sweep, 1)
  /\ pc = "idle"
  /\ i = NoIdx
  /\ start_idx = NoIdx
  /\ end_idx = NoIdx
  /\ balance = cfg.initial_balance
  /\ in_position = FALSE
  /\ current_trade = None
  /\ highest_price_in_trade = NoPrice
  /\ lowest_price_in_trade = NoPrice
  /\ trades = <<>>
  /\ equity_curve = <<>>
  /\ daily_trades_count = <<>>
  /\ rejected_trades = ZeroRejections
  /\ runs = 0
  /\ previous = None

\* run_backtest has returned: the routine records the result and, when
\* combinations remain, constructs the engine of the next one
SweepRecord ==
  /\ sweep # None
  /\ pc = "done"
  /\ LET recorded == RecordResult(sweep, get_results(cfg, Self))
     IN IF sweep.current_test < Len(sweep.grid)
        THEN /\ sweep' = [recorded EXCEPT !.current_test = @ + 1]
             /\ cfg' = SweepEngine(sweep, sweep.current_test + 1)
             /\ Store(Fresh(cfg'))
             /\ pc' = "idle"
             /\ i' = NoIdx
             /\ start_idx' = NoIdx
             /\ end_idx' = NoIdx
             /\ runs' = 0
        ELSE /\ sweep' = recorded
             /\ pc' = "swept"
             /\ UNCHANGED <<cfg, i, start_idx, end_idx, runs, balance, in_position,
                            current_trade, highest_price_in_trade,
                            lowest_price_in_trade, trades, equity_curve,
                            daily_trades_count, rejected_trades>>
  /\ UNCHANGED <<df, previous>>

\* the loops are over: the routine sorts what it kept and picks the best
SweepRank ==
  /\ sweep # None
  /\ pc = "swept"
  /\ sweep' = [sweep EXCEPT !.report = Report(sweep)]
  /\ pc' = "ranked"
  /\ UNCHANGED <<df, cfg, i, start_idx, end_idx, runs, previous, balance,
                 in_position, current_trade, highest_price_in_trade,
                 lowest_price_in_trade, trades, equity_curve,
                 daily_trades_count, rejected_trades>>

NextSweep == StartRun \/ BarStep \/ FinishRun \/ SweepRecord \/ SweepRank

SpecSweep == InitSweep /\ [][NextSweep]_vars

\* ------------------------------------------------------- sweep properties
\* the entries a finished routine shows: those of its top lists and the
\* run it selects as best
ListedEntries ==
  LET lists == sweep.report.lists
  IN UNION {{lists[l][k] : k \in 1 .. Len(lists[l])} : l \in 1 .. Len(lists)}

\* C29: once a sweep has ranked its runs, no run with fewer trades than
\* the sweep's minimum trade count is in a top list or is the best run
C29_BelowMinimumExcluded ==
  sweep # None /\ pc = "ranked" =>
    /\ \A e \in ListedEntries : e.total_trades >= MinTrades
    /\ sweep.report.best # None => sweep.report.best.total_trades >= MinTrades

\* the entry a routine would keep of combination c run alone on a new engine
Standalone(routine, c) ==
  SweepEntry(routine, c, get_results(c, run_backtest(c, df)))

\* what the routine holds after the first k combinations of its grid, had
\* each been run alone
RECURSIVE ExpectedResults(_, _)
ExpectedResults(sw, k) ==
  IF k = 0 THEN <<>>
  ELSE LET e == Standalone(sw.routine, sw.grid[k])
       IN IF FiltersOnAppend(sw.routine) /\ e.total_trades < MinTrades
          THEN ExpectedResults(sw, k - 1)
          ELSE Append(ExpectedResults(sw, k - 1), e)

\* the combinations whose result the routine has dealt with
Recorded ==
  IF pc \in {"swept", "ranked"} THEN Len(sweep.grid) ELSE sweep.current_test - 1

\* C30: every combination runs on an engine constructed for it and fresh
\* before its run, and what the sweep has recorded is, entry by entry, the
\* result of running each combination alone, whatever ran before it and
\* in whatever order the grid is enumerated
C30_RunsIndependent ==
  sweep # None =>
    /\ cfg = sweep.grid[sweep.current_test]
    /\ pc = "idle" => Self = Fresh(cfg)
    /\ pc = "done" =>
         get_results(cfg, Self) = get_results(cfg, run_backtest(cfg, df))
    /\ sweep.results = ExpectedResults(sweep, Recorded)

\* C30 witness: a sweep has recorded two runs with different trade counts,
\* the second after an earlier combination had traded
C30_Witness ==
  /\ sweep # None
  /\ pc = "ranked"
  /\ Len(sweep.results) >= 2
  /\ \E a, b \in 1 .. Len(sweep.results) :
        /\ a < b
        /\ sweep.results[a].total_trades >= 1
        /\ sweep.results[b].total_trades >= 1
        /\ sweep.results[a].return_pct # sweep.results[b].return_pct

\* ------------------------------------------------- trailing stop and target
\* C31: with use_trailing_stop enabled the trailing stop replaces the fixed
\* take-profit, so no trade of such a run is closed with reason TP: every
\* closed trade left through its trailing stop or at END_OF_DATA.
C31_TrailingReplacesTakeProfit ==
  Trailing(cfg) =>
    \A k \in 1 .. Len(trades) : trades[k].exit_reason \in {"TSL", "END_OF_DATA"}

\* ------------------------------------------------------- exit on first touch
\* the bar of this step reaches neither the take-profit nor the stop in
\* effect of the trade that is open when the step starts
ClearOfLevels ==
  IF current_trade.type = "BUY"
  THEN Row(df, i).high < current_trade.take_profit /\ Row(df, i).low > EffectiveStop
  ELSE Row(df, i).low > current_trade.take_profit /\ Row(df, i).high < EffectiveStop

\* the level the exit test of this step reports for a bar that is not clear
TouchedLevel ==
  IF current_trade.type = "BUY"
  THEN IF Row(df, i).high >= current_trade.take_profit
       THEN current_trade.take_profit ELSE EffectiveStop
  ELSE IF Row(df, i).low <= current_trade.take_profit
       THEN current_trade.take_profit ELSE EffectiveStop

\* C32: a trade is never exit-tested against its own entry bar; on each
\* later bar an open BUY trade stays open iff high < take_profit and
\* low > stop (SELL: low > take_profit and high < stop), and otherwise it is
\* closed on that bar, the first one to touch a level, at that level's price.
C32_ExitOnFirstTouch ==
  [][ InBarStep =>
        /\ (in_position /\ current_trade # None) =>
             /\ current_trade.entry_time < Row(df, i).time
             /\ ClearOfLevels <=> (SameTradeOpen /\ trades' = trades)
             /\ ~ClearOfLevels =>
                  /\ Len(trades') = Len(trades) + 1
                  /\ trades'[Len(trades')].entry_time = current_trade.entry_time
                  /\ trades'[Len(trades')].exit_time = Row(df, i).time
                  /\ trades'[Len(trades')].exit_price = TouchedLevel
        /\ ~in_position => trades' = trades
        /\ Opened => /\ in_position'
                     /\ current_trade'.entry_time = Row(df, i).time ]_vars

\* C32 witness: a recorded BUY trade whose entry bar already reached its
\* take-profit, that stayed open over a bar clear of both levels and was
\* closed at a level two or more bars after its entry
C32_Witness ==
  \E k \in 1 .. Len(trades) :
     /\ trades[k].type = "BUY"
     /\ trades[k].exit_reason \in {"TP", "SL"}
     /\ Row(df, RowAt(trades[k].entry_time)).high >= trades[k].take_profit
     /\ RowAt(trades[k].exit_time) >= RowAt(trades[k].entry_time) + 2

\* ------------------------------------------------ ratchet before exit test
\* the trailing stop of the open trade after this step's bar has been taken
\* into account: moved behind a new best price, and only in the trade's favour
RatchetedStop ==
  LET distance == (current_trade.entry_price * cfg.trailing_stop_pct) \div 100
      stop == current_trade.trailing_stop
  IN IF current_trade.type = "BUY"
     THEN IF Row(df, i).high > highest_price_in_trade
          THEN Max2(stop, Row(df, i).high - distance) ELSE stop
     ELSE IF Row(df, i).low < lowest_price_in_trade
          THEN Min2(stop, Row(df, i).low + distance) ELSE stop

\* the bar of this step reaches the take-profit of the open trade
ReachesTakeProfit ==
  IF current_trade.type = "BUY"
  THEN Row(df, i).high >= current_trade.take_profit
  ELSE Row(df, i).low <= current_trade.take_profit

\* the bar of this step reaches the ratcheted stop of the open trade
ReachesRatchetedStop ==
  IF current_trade.type = "BUY"
  THEN Row(df, i).low <= RatchetedStop
  ELSE Row(df, i).high >= RatchetedStop

\* C33: with trailing stops on, each bar after entry first ratchets the stop
\* with the bar's high (BUY) or low (SELL) and the exit test of the same bar
\* uses the ratcheted stop; an exit through the stop is priced at the
\* ratcheted trailing stop and recorded as TSL, never SL.
C33_RatchetThenTest ==
  [][ (InBarStep /\ Trailing(cfg) /\ in_position /\ current_trade # None) =>
        /\ (SameTradeOpen /\ trades' = trades) <=>
             (~ReachesTakeProfit /\ ~ReachesRatchetedStop)
        /\ SameTradeOpen => current_trade'.trailing_stop = RatchetedStop
        /\ (~ReachesTakeProfit /\ ReachesRatchetedStop) =>
             /\ Len(trades') = Len(trades) + 1
             /\ trades'[Len(trades')].entry_time = current_trade.entry_time
             /\ trades'[Len(trades')].exit_time = Row(df, i).time
             /\ trades'[Len(trades')].exit_price = RatchetedStop
             /\ trades'[Len(trades')].exit_reason = "TSL"
        /\ \A k \in 1 .. Len(trades') : trades'[k].exit_reason # "SL" ]_vars

\* C33 witness: a trade closed with TSL on the bar after its entry, which
\* never reached its initial stop-loss: the stop that closed it was moved by
\* that same bar
C33_Witness ==
  /\ Trailing(cfg)
  /\ \E k \in 1 .. Len(trades) :
        /\ trades[k].exit_reason = "TSL"
        /\ trades[k].exit_price # trades[k].stop_loss
        /\ RowAt(trades[k].exit_time) = RowAt(trades[k].entry_time) + 1
        /\ IF trades[k].type = "BUY"
           THEN Row(df, RowAt(trades[k].exit_time)).low > trades[k].stop_loss
           ELSE Row(df, RowAt(trades[k].exit_time)).high < trades[k].stop_loss

\* ------------------------------------------------- confirmation of a signal
\* the direction of the trade entered at row j
EntrySideAt(j) ==
  IF current_trade # None /\ current_trade.entry_time = Row(df, j).time
  THEN current_trade.type
  ELSE (CHOOSE r \in {trades[k] : k \in 1 .. Len(trades)} :
          r.entry_time = Row(df, j).time).type

\* C34: with the false-breakout filter enabled, a signal passes the filter
\* only if each of the next confirmation_bars bars closes beyond the boundary
\* in the signal direction: above high_level for BUY, below low_level for
\* SELL.  Every trade such a run enters was therefore confirmed that way.
C34_ConfirmedBeyondBoundary ==
  (pc # "idle" /\ IsUltra(cfg) /\ cfg.use_false_breakout_filter) =>
    \A j \in start_idx .. i - 1 :
       EnteredAt(j) =>
         \A k \in 1 .. cfg.confirmation_bars :
            /\ j + k < DfLen(df)
            /\ EntrySideAt(j) = "BUY" =>
                 Row(df, j + k).close > BoxAt(j).high_level
            /\ EntrySideAt(j) = "SELL" =>
                 Row(df, j + k).close < BoxAt(j).low_level

\* ------------------------------------------------------------ trading hours
\* The hours of a day, and the runs that exercise the time filter on every
\* combination of bar hour and trading window: an ultra engine with only the
\* time filter on, replayed from row WarmLen over a quiet series whose row
\* WarmLen breaks out upwards and whose row 0 is stamped first_time.
Hours == 0 .. 23

HourSeries(first_time) ==
  [k \in 1 .. WarmLen + TailLen |->
     [time |-> first_time + k - 1,
      high |-> IF k <= WarmLen THEN WarmBar.high ELSE 10200,
      low |-> IF k <= WarmLen THEN WarmBar.low ELSE 10200,
      close |-> IF k <= WarmLen THEN WarmBar.close ELSE 10200,
      tick_volume |-> IF k <= WarmLen THEN WarmBar.tick_volume ELSE 20]]

HourConfig(start_hour, end_hour) ==
  [BaseConfig EXCEPT !.use_time_filter = TRUE,
                     !.trading_start_hour = start_hour,
                     !.trading_end_hour = end_hour,
                     !.start_idx = WarmLen]

\* a freshly constructed engine of one of `configs`, about to be run on one
\* of `series`
Constructed(configs, series) ==
  /\ cfg \in configs
  /\ df \in series
  /\ pc = "idle"
  /\ i = NoIdx
  /\ start_idx = NoIdx
  /\ end_idx = NoIdx
  /\ balance = cfg.initial_balance
  /\ in_position = FALSE
  /\ current_trade = None
  /\ highest_price_in_trade = NoPrice
  /\ lowest_price_in_trade = NoPrice
  /\ trades = <<>>
  /\ equity_curve = <<>>
  /\ daily_trades_count = <<>>
  /\ rejected_trades = ZeroRejections
  /\ runs = 0
  /\ previous = None
  /\ sweep = None

InitHours ==
  Constructed({HourConfig(s, e) : s \in Hours, e \in Hours},
              {HourSeries(t) : t \in Hours})

NextHours == StartRun \/ BarStep \/ FinishRun

SpecHours == InitHours /\ [][NextHours]_vars

\* hour h lies in the trading window of the claim
InTradingWindow(h, start_hour, end_hour) ==
  IF start_hour <= end_hour
  THEN start_hour <= h /\ h <= end_hour
  ELSE h >= start_hour \/ h <= end_hour

\* the hour of the breakout bar
BreakoutHour == HourOf(Row(df, WarmLen).time)

\* C35: with the time filter enabled a signal passes iff the bar's hour h
\* satisfies start_hour <= h <= end_hour when start_hour <= end_hour, and
\* h >= start_hour or h <= end_hour when start_hour > end_hour, for every
\* h in 0 .. 23: the breakout at row WarmLen enters a trade exactly then, and
\* is charged to the time counter otherwise.
C35_TradingWindow ==
  (pc # "idle" /\ i > WarmLen) =>
    IF InTradingWindow(BreakoutHour, cfg.trading_start_hour, cfg.trading_end_hour)
    THEN EnteredAt(WarmLen) /\ rejected_trades["time"] = 0
    ELSE ~EnteredAt(WarmLen) /\ rejected_trades["time"] = 1

\* C35 witness: an overnight window (start_hour > end_hour) and a breakout in
\* its early-morning part, at or before end_hour, that entered a trade; the
\* window does not reach round the whole day
C35_Witness ==
  /\ pc = "done"
  /\ cfg.use_time_filter
  /\ cfg.trading_start_hour > cfg.trading_end_hour + 1
  /\ BreakoutHour <= cfg.trading_end_hour
  /\ BreakoutHour < cfg.trading_start_hour
  /\ Len(trades) = 1
  /\ trades[1].entry_time = Row(df, WarmLen).time

\* ------------------------------------------------------------- ATR stops
\* Engines with ATR stops and no filter that could veto, with an ATR period
\* that every replayed row satisfies and one that the first two replayed
\* rows do not.
AtrConfigs ==
  {[BaseConfig EXCEPT !.engine = e, !.use_atr_stops = TRUE, !.atr_period = p,
                      !.max_daily_trades = 2, !.start_idx = WarmLen] :
     e \in {"enhanced", "ultra"}, p \in {2, WarmLen + 1}}

InitAtr == Constructed(AtrConfigs, SeriesOver(WarmBar, TailBars))

NextAtr == StartRun \/ BarStep \/ FinishRun

SpecAtr == InitAtr /\ [][NextAtr]_vars

\* the trades entered so far: the closed records and the open trade
Entries ==
  {trades[k] : k \in 1 .. Len(trades)}
    \cup (IF current_trade # None THEN {current_trade} ELSE {})

\* distance of a trade's stop and of its target from its entry price
StopDistance(t) ==
  IF t.type = "BUY" THEN t.entry_price - t.stop_loss
  ELSE t.stop_loss - t.entry_price

TargetDistance(t) ==
  IF t.type = "BUY" THEN t.take_profit - t.entry_price
  ELSE t.entry_price - t.take_profit

\* C36: with ATR stops enabled, an entry at a bar whose index is below
\* atr_period + 1 gets exactly the box-based levels (stop distance 1.2 x
\* box_range, target distance stop distance x risk_reward_ratio); any other
\* entry gets stop distance = ATR x atr_multiplier, to the price resolution,
\* and target distance = stop distance x risk_reward_ratio.
C36_AtrOrBoxLevels ==
  (pc # "idle" /\ HasFilters(cfg) /\ cfg.use_atr_stops) =>
    \A t \in Entries :
       LET j == RowAt(t.entry_time)
           atr == calculate_atr(df, cfg.atr_period, j)
       IN /\ TargetDistance(t) = StopDistance(t) * cfg.risk_reward_ratio
          /\ IF j < cfg.atr_period + 1
             THEN 10 * StopDistance(t) = 12 * BoxAt(j).box_range
             ELSE /\ atr # None
                  /\ StopDistance(t) * atr.n <= atr.sum * cfg.atr_multiplier
                  /\ atr.sum * cfg.atr_multiplier < (StopDistance(t) + 1) * atr.n

\* C36 witness: one run with an entry at row atr_period, the last row
\* without an ATR, priced from the box, and a later entry priced from an ATR
\* that differs from the box-based distance
C36_Witness ==
  /\ pc = "done"
  /\ HasFilters(cfg) /\ cfg.use_atr_stops
  /\ \E t \in Entries :
        /\ RowAt(t.entry_time) = cfg.atr_period
        /\ 10 * StopDistance(t) = 12 * BoxAt(RowAt(t.entry_time)).box_range
        /\ StopDistance(t) > 0
  /\ \E t \in Entries :
        /\ RowAt(t.entry_time) > cfg.atr_period
        /\ 10 * StopDistance(t) # 12 * BoxAt(RowAt(t.entry_time)).box_range

\* ------------------------------------------------- entries, records, counters
RECURSIVE SumOver(_, _)
SumOver(f, S) ==
  IF S = {} THEN 0
  ELSE LET x == CHOOSE y \in S : TRUE
       IN f[x] + SumOver(f, S \ {x})

\* the sum of all daily trade counters
DailyTotal == SumOver(daily_trades_count, DOMAIN daily_trades_count)

\* C37: at every point of a run the number of closed trade records, plus one
\* if a position is open, equals the sum of all daily trade counters; once
\* run_backtest has returned no position is open and every entry made has
\* exactly one closed record.
C37_EntriesAccounted ==
  /\ Len(trades) + OpenCount = DailyTotal
  /\ pc = "done" =>
       /\ ~in_position
       /\ current_trade = None
       /\ Len(trades) = DailyTotal
       /\ \A a, b \in 1 .. Len(trades) :
             trades[a].entry_time = trades[b].entry_time => a = b

\* C37 witness: a finished run with entries on two dates, the last of them
\* closed by the forced close at the end of the data
C37_Witness ==
  /\ pc = "done"
  /\ Cardinality(DOMAIN daily_trades_count) >= 2
  /\ DailyTotal >= 2
  /\ trades[Len(trades)].exit_reason = "END_OF_DATA"

\* ---------------------------------------------------- order of the records
\* C38: closed trades are recorded in chronological, non-overlapping order:
\* entry_time(1), exit_time(1), entry_time(2), exit_time(2), ... never
\* decreases, and a trade's exit_time is strictly later than its entry_time
\* unless it was closed with END_OF_DATA.
C38_RecordsInOrder ==
  /\ \A k \in 1 .. Len(trades) :
        /\ trades[k].entry_time <= trades[k].exit_time
        /\ trades[k].exit_reason # "END_OF_DATA" =>
             trades[k].entry_time < trades[k].exit_time
        /\ k > 1 => trades[k - 1].exit_time <= trades[k].entry_time
  /\ (current_trade # None /\ Len(trades) >= 1) =>
       trades[Len(trades)].exit_time <= current_trade.entry_time

\* C38 witness: a finished run in which a trade was entered on the bar that
\* closed its predecessor, and was itself opened on the final bar and
\* force-closed there, exit_time equal to entry_time
C38_Witness ==
  /\ pc = "done"
  /\ Len(trades) >= 2
  /\ trades[Len(trades) - 1].exit_time = trades[Len(trades)].entry_time
  /\ trades[Len(trades)].exit_reason = "END_OF_DATA"
  /\ trades[Len(trades)].exit_time = trades[Len(trades)].entry_time

\* ------------------------------------------------------ net profit and balance
\* C39: for every run with at least one trade, net_profit (total_profit -
\* total_loss) equals final_balance - initial_balance and the sum of the
\* profits of the recorded trades, and the balance stored in the last trade
\* record equals final_balance.
C39_NetProfitIsBalanceChange ==
  (pc = "done" /\ Len(trades) >= 1) =>
    /\ Results.net_profit = Results.total_profit - Results.total_loss
    /\ Results.net_profit = Results.final_balance - Results.initial_balance
    /\ Results.net_profit = SumProfit(trades, Len(trades))
    /\ trades[Len(trades)].balance = Results.final_balance

\* C39 witness: a finished run with a winning and a losing trade whose
\* profits do not cancel
C39_Witness ==
  /\ pc = "done"
  /\ Results.total_profit > 0
  /\ Results.total_loss > 0
  /\ Results.net_profit # 0
  /\ Results.final_balance # Results.initial_balance

\* ---------------------------------------------------------- wins and losses
\* C40: in every result winning_trades + losing_trades = total_trades; a
\* trade is a win iff its profit is strictly positive, so a trade with
\* exactly zero profit is counted among the losing trades.
C40_WinsAndLosses ==
  pc = "done" =>
    /\ Results.winning_trades + Results.losing_trades = Results.total_trades
    /\ Results.total_trades = Len(trades)
    /\ Results.winning_trades =
         Cardinality({k \in 1 .. Len(trades) : trades[k].profit > 0})
    /\ Results.losing_trades =
         Cardinality({k \in 1 .. Len(trades) : trades[k].profit <= 0})
    /\ \A k \in 1 .. Len(trades) : trades[k].win <=> trades[k].profit > 0

\* C40 witness: a finished run with a winning trade and a trade opened on
\* the final bar and force-closed at the same close, profit exactly zero,
\* which the result counts as its one losing trade
C40_Witness ==
  /\ pc = "done"
  /\ Len(trades) >= 2
  /\ trades[Len(trades)].exit_reason = "END_OF_DATA"
  /\ trades[Len(trades)].exit_time = trades[Len(trades)].entry_time
  /\ trades[Len(trades)].profit = 0
  /\ Results.losing_trades = 1
  /\ Results.winning_trades = Len(trades) - 1

====
